---- MODULE Spec2Model ----
(***************************************************************************)
(* Auth-and-billing API of Percolation-Labs/snippets (src/api/app).        *)
(* The in-memory stores users_db and sessions of auth_controller.py, the   *)
(* stores payments_db, subscriptions_db and products_db of                 *)
(* payment_controller.py, the product repository, and the HTTP handlers of *)
(* routers/auth.py and routers/payments.py that read and write them.       *)
(* Every handler is one action; `resp` records the request the last       *)
(* handler served and the response it gave.                                *)
(***************************************************************************)
EXTENDS Integers, FiniteSets, Sequences, TLC

\* ---------------------------------------------------------------- bounds
MaxUsers == 2
MaxSessions == 2
MaxTicks == 1
TickMinutes == 1500
MaxDeliveries == 1
MaxRequests == 2

\* ------------------------------------------------------- program constants
ACCESS_TOKEN_EXPIRE_MINUTES == 1440

\* ------------------------------------------------------------ input sets
None == "None"
NoHash == <<>>
NoProduct == <<>>
NoSession == 0
NoUser == 0
\* canceled_at of a subscription that was never canceled
NoTime == -1
Emails == {"a@x.io", "b@x.io"}
RegPasswords == {"", "pw1"}
Passwords == RegPasswords \cup {"pw2"}
GoogleIds == {"g1", "g2"}
Secrets == {"BASE32A", "BASE32B"}
Codes == 0 .. 1
SessionIds == 1 .. MaxSessions
Cookies == {NoSession} \cup SessionIds
UserIds == 1 .. MaxUsers
Signatures == {"none", "valid", "invalid"}
\* stripe.Customer.create: the id Stripe gives the customer of a user
StripeCustomerId(user_id) == "cus_" \o ToString(user_id)
CustomerIds == {StripeCustomerId(u) : u \in UserIds}
PaymentMethodIds == {"pm_1", "pm_2"}
\* Stripe's record of a customer nothing was attached to
NewCustomer == [methods |-> {}, default_payment_method |-> None]
\* requests the event loop serves as coroutines
RequestIds == 1 .. MaxRequests
NoTask ==
    [ kind |-> None, user_id |-> NoUser, amount |-> 0, pc |-> "none", balance |-> 0,
      status |-> 0 ]
CheckoutIds == {"cs_1", "cs_2"}
StripeSubscriptionIds == {"sub_1", "sub_2"}
ProductTiers == {"Individual"}
EventTiers == {None, "Individual", "Gold"}
TokenValues == {None, "50", "many"}
Amounts == {999}
PaymentEvents ==
    [ type : {"checkout.session.completed"}, mode : {"payment"}, id : CheckoutIds,
      user_id : UserIds, tokens : TokenValues, tier : {None},
      amount_total : Amounts, currency : {"usd"}, subscription : {None} ]
SubscriptionEvents ==
    [ type : {"checkout.session.completed"}, mode : {"subscription"}, id : {"cs_1"},
      user_id : UserIds, tokens : {None}, tier : EventTiers,
      amount_total : {999}, currency : {"usd"}, subscription : StripeSubscriptionIds ]
\* checkout sessions whose metadata names no user
AnonymousEvents ==
    [ type : {"checkout.session.completed"}, mode : {"payment", "subscription"},
      id : {"cs_1"}, user_id : {NoUser}, tokens : {"50"}, tier : {"Individual"},
      amount_total : {999}, currency : {"usd"}, subscription : {"sub_1"} ]
DeletedEvents ==
    [ type : {"customer.subscription.deleted"}, mode : {None},
      id : StripeSubscriptionIds, user_id : {NoUser}, tokens : {None}, tier : {None},
      amount_total : {0}, currency : {"usd"}, subscription : {None} ]
InvoiceEvents ==
    [ type : {"invoice.payment_succeeded"}, mode : {None}, id : {"in_1"},
      user_id : {NoUser}, tokens : {None}, tier : {None}, amount_total : {999},
      currency : {"usd"}, subscription : {None} \cup StripeSubscriptionIds ]
\* the body of a request that does not parse holds no event
NoEvent ==
    [ type |-> None, mode |-> None, id |-> None, user_id |-> NoUser, tokens |-> None,
      tier |-> None, amount_total |-> 0, currency |-> None, subscription |-> None ]
Events ==
    PaymentEvents \cup SubscriptionEvents \cup AnonymousEvents \cup DeletedEvents
        \cup InvoiceEvents
\* stripe.Subscription.retrieve: an error, or the subscription's current values
Retrieved ==
    { [ok |-> FALSE],
      [ok |-> TRUE, status |-> "active", current_period_start |-> 0,
       current_period_end |-> 30] }

VARIABLES users_db, sessions, issued, now, resp,
          payments_db, subscriptions_db, products_db, repository,
          delivered, webhook_secret, TEST_MODE, stripe_customers,
          tasks, running

authVars == <<users_db, sessions, issued>>
storeVars == <<payments_db, subscriptions_db, products_db, repository>>
envVars == <<webhook_secret, TEST_MODE, stripe_customers, tasks, running>>
payVars == <<storeVars, delivered, envVars>>
vars == <<authVars, now, resp, payVars>>

\* no request is being served
NoResponse == [op |-> "idle", status |-> 0, sid |-> NoSession, uid |-> NoUser]

Idle == resp = NoResponse

\* ----------------------------------------------------- library functions
\* passlib: a hash is a tagged digest of the password, no plain text kept
get_password_hash(password) == <<"bcrypt", password>>

verify_password(plain_password, hashed_password) ==
    hashed_password = get_password_hash(plain_password)

\* pyotp: the code of a secret at a time is a keyed digest of the time step,
\* reduced to the code space (distinct secrets may share a code)
SecretKey(secret) == IF secret = "BASE32A" THEN 1 ELSE 2

TotpAt(secret, t) == (SecretKey(secret) + (t \div TickMinutes)) % Cardinality(Codes)

mfa_verify_mfa_token(secret, token) == token = TotpAt(secret, now)

\* ------------------------------------------------------- auth_controller
UserInDB(email, hashed_password, auth_provider, provider_user_id) ==
    [ email             |-> email,
      hashed_password   |-> hashed_password,
      auth_provider     |-> auth_provider,
      provider_user_id  |-> provider_user_id,
      mfa_secret        |-> None,
      mfa_enabled       |-> FALSE,
      stripe_customer_id |-> None,
      subscription_tier |-> "Free",
      credits           |-> 0 ]

\* uuid4: an id no stored user has (users are never removed)
NewUserId == Cardinality(DOMAIN users_db) + 1

\* secrets.token_hex(32): a token never issued before
NewSessionId == issued + 1

\* variant: the duplicate check is skipped
EmailRegisteredNever(email) == FALSE

EmailRegistered(email) == \E u \in DOMAIN users_db : users_db[u].email = email

\* register_user past its duplicate check: the store with the new record
register_user(email, password, auth_provider, provider_user_id) ==
    users_db @@ (NewUserId :>
        UserInDB(email,
                 IF password = None \/ password = "" THEN NoHash
                 ELSE get_password_hash(password),
                 auth_provider, provider_user_id))

\* next(...): the first stored user (insertion order) that matches
FirstUser(S) == CHOOSE u \in S : \A v \in S : u <= v

\* variant: any password is accepted for a user that has one
authenticate_userAnyPassword(email, password) ==
    LET M == {u \in DOMAIN users_db : users_db[u].email = email}
    IN  IF M = {} THEN NoUser
        ELSE IF users_db[FirstUser(M)].hashed_password = NoHash THEN NoUser
        ELSE FirstUser(M)

authenticate_user(email, password) ==
    LET M == {u \in DOMAIN users_db : users_db[u].email = email}
    IN  IF M = {} THEN NoUser
        ELSE IF users_db[FirstUser(M)].hashed_password = NoHash THEN NoUser
        ELSE IF ~verify_password(password, users_db[FirstUser(M)].hashed_password)
             THEN NoUser
        ELSE FirstUser(M)

\* variant: any code is accepted once a secret is stored
verify_mfa_tokenAnyCode(user_id, token) ==
    IF user_id \notin DOMAIN users_db THEN FALSE
    ELSE users_db[user_id].mfa_secret # None

verify_mfa_token(user_id, token) ==
    IF user_id \notin DOMAIN users_db THEN FALSE
    ELSE IF users_db[user_id].mfa_secret = None THEN FALSE
    ELSE mfa_verify_mfa_token(users_db[user_id].mfa_secret, token)

SessionExpiry == now + ACCESS_TOKEN_EXPIRE_MINUTES

create_session(user_id) ==
    sessions @@ (NewSessionId :> [user_id |-> user_id, expires |-> SessionExpiry])

\* the session check every protected auth endpoint and deps.get_current_user_id make
Authenticated(session_id) ==
    session_id # NoSession /\ session_id \in DOMAIN sessions

\* ------------------------------------------------------------ routers/auth
Register(email, password) ==
    /\ IF EmailRegistered(email)
       THEN /\ resp' = [op |-> "register", status |-> 400, sid |-> NoSession,
                        uid |-> NoUser, email |-> email, password |-> password]
            /\ UNCHANGED authVars
       ELSE /\ Cardinality(DOMAIN users_db) < MaxUsers
            /\ issued < MaxSessions
            /\ users_db' = register_user(email, password, None, None)
            /\ sessions' = create_session(NewUserId)
            /\ issued' = issued + 1
            /\ resp' = [op |-> "register", status |-> 200, sid |-> NewSessionId,
                        uid |-> NewUserId, email |-> email, password |-> password]
    /\ UNCHANGED <<now, payVars>>

Login(email, password) ==
    /\ IF authenticate_user(email, password) = NoUser
       THEN /\ resp' = [op |-> "login", status |-> 401, sid |-> NoSession,
                        uid |-> NoUser, email |-> email, password |-> password]
            /\ UNCHANGED authVars
       ELSE /\ issued < MaxSessions
            /\ sessions' = create_session(authenticate_user(email, password))
            /\ issued' = issued + 1
            /\ resp' = [op |-> "login", status |-> 200, sid |-> NewSessionId,
                        uid |-> authenticate_user(email, password),
                        email |-> email, password |-> password]
            /\ UNCHANGED users_db
    /\ UNCHANGED <<now, payVars>>

\* variant: the lookup by provider id is dropped
GoogleMatchesEmailOnly(email, google_id) ==
    {u \in DOMAIN users_db : users_db[u].email = email}

GoogleMatches(email, google_id) ==
    {u \in DOMAIN users_db :
        \/ users_db[u].email = email
        \/ (users_db[u].auth_provider = "google"
            /\ users_db[u].provider_user_id = google_id)}

\* exchange_ok: whether Google accepted the authorization code
GoogleCallback(exchange_ok, email, google_id) ==
    /\ IF ~exchange_ok
       THEN /\ resp' = [op |-> "google", status |-> 400, sid |-> NoSession,
                        uid |-> NoUser, email |-> email, google_id |-> google_id]
            /\ UNCHANGED authVars
       ELSE IF GoogleMatches(email, google_id) # {}
       THEN /\ issued < MaxSessions
            /\ sessions' = create_session(FirstUser(GoogleMatches(email, google_id)))
            /\ issued' = issued + 1
            /\ resp' = [op |-> "google", status |-> 200, sid |-> NewSessionId,
                        uid |-> FirstUser(GoogleMatches(email, google_id)),
                        email |-> email, google_id |-> google_id]
            /\ UNCHANGED users_db
       ELSE IF EmailRegistered(email)
       THEN /\ resp' = [op |-> "google", status |-> 400, sid |-> NoSession,
                        uid |-> NoUser, email |-> email, google_id |-> google_id]
            /\ UNCHANGED authVars
       ELSE /\ Cardinality(DOMAIN users_db) < MaxUsers
            /\ issued < MaxSessions
            /\ users_db' = register_user(email, None, "google", google_id)
            /\ sessions' = create_session(NewUserId)
            /\ issued' = issued + 1
            /\ resp' = [op |-> "google", status |-> 200, sid |-> NewSessionId,
                        uid |-> NewUserId, email |-> email, google_id |-> google_id]
    /\ UNCHANGED <<now, payVars>>

GetCurrentUser(session_id) ==
    /\ IF ~Authenticated(session_id)
       THEN resp' = [op |-> "me", status |-> 401, sid |-> session_id, uid |-> NoUser]
       ELSE IF sessions[session_id].user_id \notin DOMAIN users_db
       THEN resp' = [op |-> "me", status |-> 404, sid |-> session_id, uid |-> NoUser]
       ELSE resp' = [op |-> "me", status |-> 200, sid |-> session_id,
                     uid |-> sessions[session_id].user_id]
    /\ UNCHANGED <<authVars, now, payVars>>

\* variant: the cookie is cleared but the session is kept
logoutKeepsSession(session_id) == sessions

logout(session_id) ==
    IF Authenticated(session_id)
    THEN [s \in DOMAIN sessions \ {session_id} |-> sessions[s]]
    ELSE sessions

Logout(session_id) ==
    /\ sessions' = logout(session_id)
    /\ resp' = [op |-> "logout", status |-> 200, sid |-> session_id, uid |-> NoUser]
    /\ UNCHANGED <<users_db, issued, now, payVars>>

\* variant: setup also switches MFA on
generate_mfa_setupEnables(user_id, secret) ==
    [users_db EXCEPT ![user_id].mfa_secret = secret, ![user_id].mfa_enabled = TRUE]

generate_mfa_setup(user_id, secret) ==
    [users_db EXCEPT ![user_id].mfa_secret = secret]

\* secret: what pyotp.random_base32() returned
SetupMfa(session_id, secret) ==
    /\ IF ~Authenticated(session_id)
       THEN /\ resp' = [op |-> "mfa_setup", status |-> 401, sid |-> session_id,
                        uid |-> NoUser, secret |-> None]
            /\ UNCHANGED users_db
       ELSE IF sessions[session_id].user_id \notin DOMAIN users_db
       THEN /\ resp' = [op |-> "mfa_setup", status |-> 404, sid |-> session_id,
                        uid |-> NoUser, secret |-> None]
            /\ UNCHANGED users_db
       ELSE /\ users_db' = generate_mfa_setup(sessions[session_id].user_id, secret)
            /\ resp' = [op |-> "mfa_setup", status |-> 200, sid |-> session_id,
                        uid |-> sessions[session_id].user_id, secret |-> secret]
    /\ UNCHANGED <<sessions, issued, now, payVars>>

enable_mfa(user_id) == [users_db EXCEPT ![user_id].mfa_enabled = TRUE]

VerifyMfa(session_id, code) ==
    /\ IF ~Authenticated(session_id)
       THEN /\ resp' = [op |-> "mfa_verify", status |-> 401, sid |-> session_id,
                        uid |-> NoUser, code |-> code]
            /\ UNCHANGED users_db
       ELSE IF ~verify_mfa_token(sessions[session_id].user_id, code)
       THEN /\ resp' = [op |-> "mfa_verify", status |-> 400, sid |-> session_id,
                        uid |-> sessions[session_id].user_id, code |-> code]
            /\ UNCHANGED users_db
       ELSE /\ users_db' = enable_mfa(sessions[session_id].user_id)
            /\ resp' = [op |-> "mfa_verify", status |-> 200, sid |-> session_id,
                        uid |-> sessions[session_id].user_id, code |-> code]
    /\ UNCHANGED <<sessions, issued, now, payVars>>

ValidateMfa(session_id, code) ==
    /\ IF ~Authenticated(session_id)
       THEN resp' = [op |-> "mfa_validate", status |-> 401, sid |-> session_id,
                     uid |-> NoUser, code |-> code]
       ELSE IF ~verify_mfa_token(sessions[session_id].user_id, code)
       THEN resp' = [op |-> "mfa_validate", status |-> 400, sid |-> session_id,
                     uid |-> sessions[session_id].user_id, code |-> code]
       ELSE resp' = [op |-> "mfa_validate", status |-> 200, sid |-> session_id,
                     uid |-> sessions[session_id].user_id, code |-> code]
    /\ UNCHANGED <<authVars, now, payVars>>

\* datetime.utcnow() advances between requests
Tick ==
    /\ Idle
    /\ now < MaxTicks * TickMinutes
    /\ now' = now + TickMinutes
    /\ UNCHANGED <<authVars, resp, payVars>>

\* the response is sent and the server waits for the next request
Respond ==
    /\ ~Idle
    /\ resp' = NoResponse
    /\ UNCHANGED <<authVars, now, payVars>>

\* ------------------------------------------------------ payment_controller
SUBSCRIPTION_TIERS ==
    [ Free       |-> [name |-> "Free",       price |-> 0,     credits |-> 5],
      Individual |-> [name |-> "Individual", price |-> 999,   credits |-> 100],
      Team       |-> [name |-> "Team",       price |-> 4999,  credits |-> 500],
      Enterprise |-> [name |-> "Enterprise", price |-> 19999, credits |-> 2000] ]

TierNames == DOMAIN SUBSCRIPTION_TIERS

\* f"{tier.name} Subscription"
SubscriptionProductName(tier_name) == tier_name \o " Subscription"

\* percolate.utils.make_uuid: an id that is a function of the name alone
make_uuid(name) == <<"uuid5", name>>

\* the Product record create_subscription_product builds (prices in cents)
SubscriptionProduct(tier_name) ==
    [ id           |-> make_uuid(SubscriptionProductName(tier_name)),
      name         |-> SubscriptionProductName(tier_name),
      description  |-> tier_name \o " tier subscription",
      active       |-> TRUE,
      price        |-> SUBSCRIPTION_TIERS[tier_name].price,
      product_type |-> "subscription",
      metadata     |-> [type    |-> "subscription",
                        tier    |-> tier_name,
                        credits |-> SUBSCRIPTION_TIERS[tier_name].credits] ]

\* p8.repository(Product).update_records: an upsert keyed by the record's id
update_records(product) ==
    [id \in DOMAIN repository \cup {product.id} |->
        IF id = product.id THEN product ELSE repository[id]]

\* stripe_ok: whether Stripe's Product and Price calls succeed
CreateSubscriptionProduct(tier_name, stripe_ok) ==
    /\ IF ~stripe_ok
       THEN /\ resp' = [op |-> "create_subscription_product", status |-> 400,
                        sid |-> NoSession, uid |-> NoUser, tier |-> tier_name]
            /\ UNCHANGED repository
       ELSE /\ repository' = update_records(SubscriptionProduct(tier_name))
            /\ resp' = [op |-> "create_subscription_product", status |-> 200,
                        sid |-> NoSession, uid |-> NoUser, tier |-> tier_name]
    /\ UNCHANGED <<authVars, now, payments_db, subscriptions_db, products_db,
                   delivered, envVars>>

\* variant: the amount is stored in cents
AmountInCents(amount_total) == [units |-> amount_total, cents |-> 0]

\* session["amount_total"] / 100: cents to major currency units
Amount(amount_total) ==
    [units |-> amount_total \div 100, cents |-> amount_total % 100]

\* uuid4 ids of payments and subscriptions (records are never removed)
NewPaymentId == Cardinality(DOMAIN payments_db) + 1

NewSubscriptionId(subs) == Cardinality(DOMAIN subs) + 1

record_payment(user_id, amount, currency, stripe_payment_id, metadata) ==
    payments_db @@ (NewPaymentId :>
        [ user_id           |-> user_id,
          amount            |-> amount,
          currency          |-> currency,
          status            |-> "completed",
          payment_method    |-> "stripe",
          stripe_payment_id |-> stripe_payment_id,
          metadata          |-> metadata ])

record_subscription(subs, user_id, product_id, stripe_subscription_id, period) ==
    subs @@ (NewSubscriptionId(subs) :>
        [ user_id                |-> user_id,
          product_id             |-> product_id,
          status                 |-> "active",
          current_period_start   |-> period.current_period_start,
          current_period_end     |-> period.current_period_end,
          cancel_at_period_end   |-> FALSE,
          canceled_at            |-> NoTime,
          stripe_subscription_id |-> stripe_subscription_id ])

update_user_credits(db, user_id, credits) ==
    [db EXCEPT ![user_id].credits = @ + credits]

update_user_subscription_tier(db, user_id, tier) ==
    [db EXCEPT ![user_id].subscription_tier = tier]

\* variant: every subscription counts as the user's
get_user_subscriptionsOfAnyone(user_id) == DOMAIN subscriptions_db

get_user_subscriptions(user_id) ==
    {s \in DOMAIN subscriptions_db : subscriptions_db[s].user_id = user_id}

get_user_payments(user_id) ==
    {p \in DOMAIN payments_db : payments_db[p].user_id = user_id}

\* the first local subscription (insertion order) with a Stripe id, or 0
LocalSubscription(stripe_subscription_id) ==
    LET M == {s \in DOMAIN subscriptions_db :
                subscriptions_db[s].stripe_subscription_id = stripe_subscription_id}
    IN  IF M = {} THEN 0 ELSE CHOOSE s \in M : \A t \in M : s <= t

Canceled(sub) ==
    [sub EXCEPT !.status = "canceled", !.cancel_at_period_end = FALSE,
                !.canceled_at = now]

\* cancel_immediately = True. stripe_active: the subscriptions Stripe lists as
\* active for the customer and lets the handler delete
cancel_user_stripe_subscriptions(stripe_active, exclude_subscription_id) ==
    IF TEST_MODE THEN subscriptions_db
    ELSE [s \in DOMAIN subscriptions_db |->
            IF \E x \in stripe_active \ {exclude_subscription_id} :
                    s = LocalSubscription(x)
            THEN Canceled(subscriptions_db[s])
            ELSE subscriptions_db[s]]

\* products_db.values() in insertion order: the first product of a tier, or NoProduct
ProductIdOfTier(tier) ==
    LET M == {i \in DOMAIN products_db : products_db[i].metadata.tier = tier}
    IN  IF M = {} THEN NoProduct ELSE products_db[CHOOSE i \in M : \A j \in M : i <= j].id

\* the tier of the product with an id in products_db, or None
TierOfProduct(product_id) ==
    LET M == {i \in DOMAIN products_db : products_db[i].id = product_id}
    IN  IF M = {} THEN None ELSE products_db[CHOOSE i \in M : TRUE].metadata.tier

\* --------------------------------------------------------- routers/payments
\* int(metadata["tokens"])
IsInt(str) == str \in {"50", "100"}

IntOf(str) == IF str = "50" THEN 50 ELSE 100

\* lines 457-480: the requests that get past the signature and payload checks
WebhookAccepted(sig, payload_ok) ==
    IF webhook_secret # None /\ sig # "none"
    THEN sig = "valid" /\ payload_ok
    ELSE payload_ok

Outcome(status, success, users, payments, subs) ==
    [status |-> status, success |-> success, users_db |-> users,
     payments_db |-> payments, subscriptions_db |-> subs]

NoChange(status, success) ==
    Outcome(status, success, users_db, payments_db, subscriptions_db)

\* lines 493-508
CheckoutPayment(ev) ==
    LET payments ==
            record_payment(ev.user_id, Amount(ev.amount_total), ev.currency, ev.id,
                           [user_id |-> ev.user_id, tokens |-> ev.tokens])
    IN  IF ev.tokens = None
        THEN Outcome(200, TRUE, users_db, payments, subscriptions_db)
        ELSE IF ~IsInt(ev.tokens)
        THEN Outcome(500, FALSE, users_db, payments, subscriptions_db)
        ELSE IF ev.user_id \notin DOMAIN users_db
        THEN Outcome(404, FALSE, users_db, payments, subscriptions_db)
        ELSE Outcome(200, TRUE,
                     update_user_credits(users_db, ev.user_id, IntOf(ev.tokens)),
                     payments, subscriptions_db)

\* lines 510-562. retrieved: what stripe.Subscription.retrieve returned
CheckoutSubscription(ev, retrieved, stripe_active) ==
    IF ~retrieved.ok THEN NoChange(500, FALSE)
    ELSE IF ev.tier = None THEN NoChange(200, TRUE)
    ELSE
    LET subs1 ==
            IF /\ ev.user_id \in DOMAIN users_db
               /\ users_db[ev.user_id].stripe_customer_id # None
            THEN cancel_user_stripe_subscriptions(stripe_active, ev.subscription)
            ELSE subscriptions_db
    IN  IF ev.user_id \notin DOMAIN users_db
        THEN Outcome(404, FALSE, users_db, payments_db, subs1)
        ELSE
        LET users1 == update_user_subscription_tier(users_db, ev.user_id, ev.tier)
            users2 == IF ev.tier \in TierNames
                      THEN update_user_credits(users1, ev.user_id,
                                               SUBSCRIPTION_TIERS[ev.tier].credits)
                      ELSE users1
        IN  Outcome(200, TRUE, users2, payments_db,
                    IF ProductIdOfTier(ev.tier) # NoProduct
                    THEN record_subscription(subs1, ev.user_id,
                                             ProductIdOfTier(ev.tier),
                                             ev.subscription, retrieved)
                    ELSE subs1)

\* lines 564-603
SubscriptionDeleted(ev) ==
    LET s == LocalSubscription(ev.id)
    IN  IF s = 0 THEN NoChange(200, TRUE)
        ELSE
        LET subs == [subscriptions_db EXCEPT ![s] = Canceled(@)]
            user_id == subscriptions_db[s].user_id
        IN  IF /\ user_id \in DOMAIN users_db
               /\ TierOfProduct(subscriptions_db[s].product_id) # None
               /\ TierOfProduct(subscriptions_db[s].product_id)
                    = users_db[user_id].subscription_tier
            THEN Outcome(200, TRUE,
                         update_user_subscription_tier(users_db, user_id, "Free"),
                         payments_db, subs)
            ELSE Outcome(200, TRUE, users_db, payments_db, subs)

\* lines 605-650
InvoicePaymentSucceeded(ev, retrieved) ==
    IF ev.subscription = None THEN NoChange(200, TRUE)
    ELSE IF ~retrieved.ok THEN NoChange(500, FALSE)
    ELSE
    LET s == LocalSubscription(ev.subscription)
    IN  IF s = 0 THEN NoChange(200, TRUE)
        ELSE
        LET subs == [subscriptions_db EXCEPT
                        ![s].current_period_start = retrieved.current_period_start,
                        ![s].current_period_end = retrieved.current_period_end,
                        ![s].status = retrieved.status]
            tier == TierOfProduct(subscriptions_db[s].product_id)
            user_id == subscriptions_db[s].user_id
        IN  IF tier \notin TierNames
            THEN Outcome(200, TRUE, users_db, payments_db, subs)
            ELSE IF user_id \notin DOMAIN users_db
            THEN Outcome(404, FALSE, users_db, payments_db, subs)
            ELSE Outcome(200, TRUE,
                         update_user_credits(users_db, user_id,
                                             SUBSCRIPTION_TIERS[tier].credits),
                         payments_db, subs)

\* lines 482-652: the event-type branching
HandleEvent(ev, retrieved, stripe_active) ==
    IF ev.type = "checkout.session.completed"
    THEN IF ev.user_id = NoUser THEN NoChange(200, FALSE)
         ELSE IF ev.mode = "payment" THEN CheckoutPayment(ev)
         ELSE IF ev.mode = "subscription"
              THEN CheckoutSubscription(ev, retrieved, stripe_active)
         ELSE NoChange(200, TRUE)
    ELSE IF ev.type = "customer.subscription.deleted" THEN SubscriptionDeleted(ev)
    ELSE IF ev.type = "invoice.payment_succeeded"
         THEN InvoicePaymentSucceeded(ev, retrieved)
    ELSE NoChange(200, TRUE)

\* sig: the stripe-signature header ("none": absent); payload_ok: the body parses
StripeWebhook(sig, payload_ok, ev, retrieved, stripe_active) ==
    /\ IF ~WebhookAccepted(sig, payload_ok)
       THEN /\ resp' = [op |-> "webhook", status |-> 400, sid |-> NoSession,
                        uid |-> NoUser, sig |-> sig, event |-> NoEvent,
                        success |-> FALSE]
            /\ UNCHANGED <<users_db, payments_db, subscriptions_db, delivered>>
       ELSE /\ delivered < MaxDeliveries
            /\ delivered' = delivered + 1
            /\ users_db' = HandleEvent(ev, retrieved, stripe_active).users_db
            /\ payments_db' = HandleEvent(ev, retrieved, stripe_active).payments_db
            /\ subscriptions_db' =
                    HandleEvent(ev, retrieved, stripe_active).subscriptions_db
            /\ resp' = [op |-> "webhook",
                        status |-> HandleEvent(ev, retrieved, stripe_active).status,
                        sid |-> NoSession, uid |-> NoUser, sig |-> sig, event |-> ev,
                        success |-> HandleEvent(ev, retrieved, stripe_active).success]
    /\ UNCHANGED <<sessions, issued, now, products_db, repository, envVars>>

\* the stores are empty; the environment sets neither STRIPE_SECRET_KEY nor
\* STRIPE_WEBHOOK_SECRET
Init ==
    /\ users_db = <<>>
    /\ sessions = <<>>
    /\ issued = 0
    /\ now = 0
    /\ resp = NoResponse
    /\ payments_db = <<>>
    /\ subscriptions_db = <<>>
    /\ products_db = <<>>
    /\ repository = <<>>
    /\ delivered = 0
    /\ webhook_secret = None
    /\ TEST_MODE = TRUE
    /\ stripe_customers = [c \in CustomerIds |-> NewCustomer]
    /\ tasks = [r \in RequestIds |-> NoTask]
    /\ running = 0

DoRegister ==
    /\ Idle
    /\ \E e \in Emails, p \in RegPasswords : Register(e, p)
DoLogin ==
    /\ Idle
    /\ \E e \in Emails, p \in Passwords : Login(e, p)
DoGoogleCallback ==
    /\ Idle
    /\ \E ok \in BOOLEAN, e \in Emails, g \in GoogleIds : GoogleCallback(ok, e, g)
DoGetCurrentUser ==
    /\ Idle
    /\ \E s \in Cookies : GetCurrentUser(s)
DoLogout ==
    /\ Idle
    /\ \E s \in Cookies : Logout(s)
DoSetupMfa ==
    /\ Idle
    /\ \E s \in Cookies, k \in Secrets : SetupMfa(s, k)
DoVerifyMfa ==
    /\ Idle
    /\ \E s \in Cookies, c \in Codes : VerifyMfa(s, c)
DoValidateMfa ==
    /\ Idle
    /\ \E s \in Cookies, c \in Codes : ValidateMfa(s, c)

Next ==
    \/ DoRegister
    \/ DoLogin
    \/ DoGoogleCallback
    \/ DoGetCurrentUser
    \/ DoLogout
    \/ DoSetupMfa
    \/ DoVerifyMfa
    \/ DoValidateMfa
    \/ Tick
    \/ Respond

Spec == Init /\ [][Next]_vars

\* ------------------------------------------------- the payment deployment
\* any environment: with or without a Stripe key, with or without a webhook secret
InitPay ==
    /\ users_db = <<>>
    /\ sessions = <<>>
    /\ issued = 0
    /\ now = 0
    /\ resp = NoResponse
    /\ payments_db = <<>>
    /\ subscriptions_db = <<>>
    /\ products_db = <<>>
    /\ repository = <<>>
    /\ delivered = 0
    /\ webhook_secret \in {None, "whsec"}
    /\ TEST_MODE \in BOOLEAN
    /\ stripe_customers = [c \in CustomerIds |-> NewCustomer]
    /\ tasks = [r \in RequestIds |-> NoTask]
    /\ running = 0

DoRegisterPay ==
    /\ Idle
    /\ \E e \in Emails : Register(e, "pw1")

DoCreateSubscriptionProduct ==
    /\ Idle
    /\ \E t \in ProductTiers, ok \in BOOLEAN : CreateSubscriptionProduct(t, ok)

\* the Stripe answers a handler of the event asks for
RetrievedFor(ev) ==
    IF ev.subscription # None THEN Retrieved ELSE {[ok |-> FALSE]}

ActiveFor(ev) ==
    IF ev.mode = "subscription" THEN SUBSET StripeSubscriptionIds ELSE {{}}

DoStripeWebhook ==
    /\ Idle
    /\ \/ \E sig \in Signatures, ev \in Events :
             \E retrieved \in RetrievedFor(ev), stripe_active \in ActiveFor(ev) :
                StripeWebhook(sig, TRUE, ev, retrieved, stripe_active)
       \/ \E sig \in Signatures :
                StripeWebhook(sig, FALSE, NoEvent, [ok |-> FALSE], {})

NextPay ==
    \/ DoRegisterPay
    \/ DoCreateSubscriptionProduct
    \/ DoStripeWebhook
    \/ Respond

SpecPay == InitPay /\ [][NextPay]_vars

\* ------------------------------------------------- the product catalogue
\* ProductCreate.price is optional: no price given
NoPrice == -1
ProductNames == {"Widget", "Tokens"}
Descriptions == {"first", "second"}
ProductPrices == {NoPrice, 1999}

\* auth_controller.get_user_profile_from_valid_session(session_id).id: the user
\* of a stored, unexpired session, or NoUser (the request is answered 401)
get_user_profile_from_valid_session(session_id) ==
    IF session_id \in DOMAIN sessions /\ sessions[session_id].expires >= now
    THEN sessions[session_id].user_id
    ELSE NoUser

\* p8.repository(Product).select(name=name): the ids of the stored products
\* with a name
get_product_by_name(repo, name) ==
    {id \in DOMAIN repo : repo[id].name = name}

\* the Product record create_product builds (price in cents)
Product(name, description, price) ==
    [ id           |-> make_uuid(name),
      name         |-> name,
      description  |-> description,
      active       |-> TRUE,
      price        |-> price,
      product_type |-> None,
      metadata     |-> [type |-> None, tier |-> None, credits |-> None] ]

\* update_records on a given store
Upsert(repo, product) ==
    [id \in DOMAIN repo \cup {product.id} |->
        IF id = product.id THEN product ELSE repo[id]]

\* variant: the name check is skipped and the record is stored under a new id
create_productAlwaysAdds(repo, name, description, price, update_if_exists, stripe_ok) ==
    [status |-> 200, detail |-> None,
     repository |-> Upsert(repo,
        [Product(name, description, price) EXCEPT
            !.id = <<"uuid4", ToString(Cardinality(DOMAIN repo))>>])]

\* stripe_ok: whether the Stripe Product and Price calls succeed
create_product(repo, name, description, price, update_if_exists, stripe_ok) ==
    IF Cardinality(get_product_by_name(repo, name)) > 1
    THEN [status |-> 500, detail |-> "multiple products", repository |-> repo]
    ELSE IF get_product_by_name(repo, name) # {} /\ ~update_if_exists
    THEN [status |-> 400, detail |-> "already exists", repository |-> repo]
    ELSE IF ~stripe_ok
    THEN [status |-> 400, detail |-> "Stripe error", repository |-> repo]
    ELSE IF price = NoPrice
    \* `product` is bound only inside `if price is not None`
    THEN [status |-> 500, detail |-> "Failed to create product", repository |-> repo]
    ELSE [status |-> 200, detail |-> None,
          repository |-> Upsert(repo, Product(name, description, price))]

\* POST /payments/products
CreateProduct(session_id, name, description, price, stripe_ok) ==
    LET user_id == get_user_profile_from_valid_session(session_id)
        made == create_product(repository, name, description, price, FALSE, stripe_ok)
    IN  /\ IF user_id = NoUser
           THEN /\ resp' = [op |-> "create_product", status |-> 401,
                            sid |-> session_id, uid |-> NoUser, name |-> name,
                            description |-> description, detail |-> None]
                /\ UNCHANGED repository
           ELSE /\ resp' = [op |-> "create_product", status |-> made.status,
                            sid |-> session_id, uid |-> user_id, name |-> name,
                            description |-> description, detail |-> made.detail]
                /\ repository' = made.repository
        /\ UNCHANGED <<authVars, now, payments_db, subscriptions_db, products_db,
                       delivered, envVars>>

\* the Stripe product is deactivated (errors are swallowed); the deletion from
\* the repository is commented out and the function ends without a return
\* value, which the caller reads as "not success"
delete_product_by_name(name) ==
    IF get_product_by_name(repository, name) = {}
    THEN [success |-> FALSE, repository |-> repository]
    ELSE [success |-> FALSE, repository |-> repository]

\* DELETE /payments/products/{name}
DeleteProduct(session_id, name) ==
    LET user_id == get_user_profile_from_valid_session(session_id)
        done == delete_product_by_name(name)
    IN  /\ IF user_id = NoUser
           THEN /\ resp' = [op |-> "delete_product", status |-> 401,
                            sid |-> session_id, uid |-> NoUser, name |-> name]
                /\ UNCHANGED repository
           ELSE /\ resp' = [op |-> "delete_product",
                            status |-> IF done.success THEN 200 ELSE 404,
                            sid |-> session_id, uid |-> user_id, name |-> name]
                /\ repository' = done.repository
        /\ UNCHANGED <<authVars, now, payments_db, subscriptions_db, products_db,
                       delivered, envVars>>

\* GET /payments/products: get_all_db_products
GetProducts ==
    /\ resp' = [op |-> "get_products", status |-> 200, sid |-> NoSession,
                uid |-> NoUser,
                names |-> {repository[id].name : id \in DOMAIN repository}]
    /\ UNCHANGED <<authVars, now, payVars>>

\* tokens_product: $0.01 per token, at least 50 tokens a purchase (cents)
tokens_product ==
    [name |-> "Tokens", description |-> "Credits for API usage", price |-> 1,
     min_purchase |-> 50]

\* SUBSCRIPTION_TIERS.items(): the tiers in the order the dict lists them
TierOrder == <<"Free", "Individual", "Team", "Enterprise">>

PricedTier(tier_name) == SUBSCRIPTION_TIERS[tier_name].price > 0

\* variant: the free tier gets a product too
InitialTiersAll == TierOrder

\* the tiers initialize_subscription_products creates a product for
InitialTiers == SelectSeq(TierOrder, PricedTier)

\* the repository after the first k tiers of a sequence have been upserted
RECURSIVE UpsertTiers(_, _, _)
UpsertTiers(repo, tiers, k) ==
    IF k = 0 \/ tiers = <<>> THEN repo
    ELSE UpsertTiers(Upsert(repo, SubscriptionProduct(Head(tiers))), Tail(tiers), k - 1)

\* ok_count: how many tiers Stripe accepts before one of its calls fails
initialize_subscription_products(repo, ok_count) ==
    [status |-> IF ok_count >= Len(InitialTiers) THEN 200 ELSE 400,
     repository |-> UpsertTiers(repo, InitialTiers, ok_count)]

initialize_token_product(repo, stripe_ok) ==
    create_product(repo, tokens_product.name, tokens_product.description,
                   tokens_product.price, TRUE, stripe_ok)

\* POST /payments/initialize-products. ok_count: the creations that succeed
\* before a Stripe call fails (all of them: Len(InitialTiers) + 1)
InitializeProducts(ok_count) ==
    LET subs == initialize_subscription_products(repository, ok_count)
        token == initialize_token_product(subs.repository,
                                          ok_count > Len(InitialTiers))
        status == IF subs.status # 200 THEN subs.status ELSE token.status
    IN  /\ TEST_MODE => ok_count # Len(InitialTiers)
        /\ repository' = IF subs.status # 200 THEN subs.repository
                         ELSE token.repository
        /\ resp' = [op |-> "initialize_products", status |-> status,
                    sid |-> NoSession, uid |-> NoUser]
        /\ UNCHANGED <<authVars, now, payments_db, subscriptions_db, products_db,
                       delivered, envVars>>

DoCreateProduct ==
    /\ Idle
    /\ \E s \in Cookies, n \in ProductNames, d \in Descriptions, p \in ProductPrices,
          ok \in BOOLEAN :
            /\ TEST_MODE => ok
            /\ CreateProduct(s, n, d, p, ok)

DoDeleteProduct ==
    /\ Idle
    /\ \E s \in Cookies, n \in ProductNames : DeleteProduct(s, n)

DoGetProducts ==
    /\ Idle
    /\ GetProducts

DoInitializeProducts ==
    /\ Idle
    /\ \E k \in 0 .. Len(InitialTiersAll) + 1 : InitializeProducts(k)

NextProducts ==
    \/ DoRegisterPay
    \/ DoCreateProduct
    \/ DoDeleteProduct
    \/ DoGetProducts
    \/ DoInitializeProducts
    \/ Respond

SpecProducts == InitPay /\ [][NextProducts]_vars

\* ------------------------------------------- subscriptions and customers
MaxSubscriptions == 1
SubscriptionIds == 1 .. MaxSubscriptions
\* the status Stripe reports for a subscription that is not canceled
StripeStatuses == {"active", "past_due"}

\* variant: the customer id is stored before Stripe is asked
ensure_stripe_customerStoresFirst(user_id, stripe_ok) ==
    IF user_id \notin DOMAIN users_db
    THEN [status |-> 404, users_db |-> users_db, customer_id |-> None]
    ELSE [status |-> IF stripe_ok \/ users_db[user_id].stripe_customer_id # None
                     THEN 200 ELSE 400,
          users_db |-> [users_db EXCEPT
                            ![user_id].stripe_customer_id = StripeCustomerId(user_id)],
          customer_id |-> StripeCustomerId(user_id)]

\* stripe_ok: whether create_stripe_customer gets a customer from Stripe
ensure_stripe_customer(user_id, stripe_ok) ==
    IF user_id \notin DOMAIN users_db
    THEN [status |-> 404, users_db |-> users_db, customer_id |-> None]
    ELSE IF users_db[user_id].stripe_customer_id # None
    THEN [status |-> 200, users_db |-> users_db,
          customer_id |-> users_db[user_id].stripe_customer_id]
    ELSE IF ~stripe_ok
    THEN [status |-> 400, users_db |-> users_db, customer_id |-> None]
    ELSE [status |-> 200,
          users_db |-> [users_db EXCEPT
                            ![user_id].stripe_customer_id = StripeCustomerId(user_id)],
          customer_id |-> StripeCustomerId(user_id)]

\* GET /payments/customer. customer_ok, retrieve_ok: whether Stripe creates and
\* then returns the customer
GetCustomer(session_id, customer_ok, retrieve_ok) ==
    LET user_id == get_user_profile_from_valid_session(session_id)
        ensured == ensure_stripe_customer(user_id, customer_ok)
        asked == users_db[user_id].stripe_customer_id = None
    IN  /\ IF user_id = NoUser
           THEN /\ resp' = [op |-> "get_customer", status |-> 401, sid |-> session_id,
                            uid |-> NoUser, stripe_error |-> FALSE,
                            failed_call |-> None]
                /\ UNCHANGED users_db
           ELSE /\ users_db' = ensured.users_db
                /\ resp' = [op |-> "get_customer",
                            status |-> IF ensured.status # 200 THEN ensured.status
                                       ELSE IF retrieve_ok THEN 200 ELSE 400,
                            sid |-> session_id, uid |-> user_id,
                            stripe_error |-> (asked /\ ~customer_ok) \/
                                             (ensured.status = 200 /\ ~retrieve_ok),
                            failed_call |->
                                IF asked /\ ~customer_ok THEN "Customer.create"
                                ELSE IF ensured.status = 200 /\ ~retrieve_ok
                                THEN "Customer.retrieve" ELSE None]
        /\ UNCHANGED <<sessions, issued, now, payVars>>

\* a direct call of the controller's record_subscription, as the tests make
RecordSubscription(user_id, product_id, stripe_subscription_id) ==
    /\ Cardinality(DOMAIN subscriptions_db) < MaxSubscriptions
    /\ subscriptions_db' =
            record_subscription(subscriptions_db, user_id, product_id,
                                stripe_subscription_id,
                                [current_period_start |-> 0, current_period_end |-> 30])
    /\ resp' = [op |-> "record_subscription", status |-> 200, sid |-> NoSession,
                uid |-> user_id]
    /\ UNCHANGED <<authVars, now, payments_db, products_db, repository, delivered,
                   envVars>>

\* what Stripe returns for Subscription.modify(cancel_at_period_end = TRUE)
\* and for Subscription.delete
StripeCancelled(cancel_immediately, stripe_status) ==
    IF cancel_immediately
    THEN [status |-> "canceled", cancel_at_period_end |-> FALSE, canceled_at |-> now]
    ELSE [status |-> stripe_status, cancel_at_period_end |-> TRUE, canceled_at |-> now]

\* stripe_ok: whether the Stripe calls succeed; stripe_status: the status Stripe
\* holds for the subscription
cancel_subscription(subscription_id, cancel_immediately, stripe_ok, stripe_status) ==
    IF subscription_id \notin DOMAIN subscriptions_db
    THEN [status |-> 404, subscriptions_db |-> subscriptions_db,
          result |-> [status |-> None, cancel_at_period_end |-> FALSE]]
    ELSE IF TEST_MODE
    THEN [status |-> 200,
          subscriptions_db |->
            [subscriptions_db EXCEPT
                ![subscription_id].status = "canceled",
                ![subscription_id].cancel_at_period_end = ~cancel_immediately,
                ![subscription_id].canceled_at = now,
                ![subscription_id].current_period_end =
                    IF cancel_immediately THEN now ELSE @],
          result |-> [status |-> IF cancel_immediately THEN "canceled" ELSE "active",
                      cancel_at_period_end |-> ~cancel_immediately]]
    ELSE IF ~stripe_ok
    THEN [status |-> 400, subscriptions_db |-> subscriptions_db,
          result |-> [status |-> None, cancel_at_period_end |-> FALSE]]
    ELSE LET stripe_subscription == StripeCancelled(cancel_immediately, stripe_status)
         IN  [status |-> 200,
              subscriptions_db |->
                [subscriptions_db EXCEPT
                    ![subscription_id].status = stripe_subscription.status,
                    ![subscription_id].cancel_at_period_end =
                        stripe_subscription.cancel_at_period_end,
                    ![subscription_id].canceled_at = stripe_subscription.canceled_at],
              result |-> [status |-> stripe_subscription.status,
                          cancel_at_period_end |->
                            stripe_subscription.cancel_at_period_end]]

\* POST /payments/subscriptions/{subscription_id}/cancel
CancelSubscription(session_id, subscription_id, cancel_immediately, stripe_ok, stripe_status) ==
    LET user_id == get_user_profile_from_valid_session(session_id)
        done == cancel_subscription(subscription_id, cancel_immediately, stripe_ok,
                                    stripe_status)
        request == [sid |-> session_id, subscription_id |-> subscription_id,
                    cancel_immediately |-> cancel_immediately]
    IN  /\ IF user_id = NoUser
           THEN /\ resp' = request @@
                        [op |-> "cancel_subscription", status |-> 401, uid |-> NoUser,
                         stripe_error |-> FALSE, failed_call |-> None,
                         result |-> None]
                /\ UNCHANGED subscriptions_db
           ELSE IF subscription_id \notin get_user_subscriptions(user_id)
           THEN /\ resp' = request @@
                        [op |-> "cancel_subscription", status |-> 404, uid |-> user_id,
                         stripe_error |-> FALSE, failed_call |-> None,
                         result |-> None]
                /\ UNCHANGED subscriptions_db
           ELSE /\ subscriptions_db' = done.subscriptions_db
                /\ resp' = request @@
                        [op |-> "cancel_subscription", status |-> done.status,
                         uid |-> user_id,
                         stripe_error |-> ~TEST_MODE /\ ~stripe_ok,
                         failed_call |-> IF ~TEST_MODE /\ ~stripe_ok
                                         THEN "Subscription.modify" ELSE None,
                         result |-> done.result.status]
        /\ UNCHANGED <<authVars, now, payments_db, products_db, repository, delivered,
                       envVars>>

\* the step of create_direct_subscription that fails, if any: listing the
\* payment methods (a Stripe error, or an empty list), retrieving the customer,
\* listing the active subscriptions, creating the subscription
FailurePoints == {"methods", "no_methods", "customer", "list", "create", "none"}

\* the Stripe calls of cancel_user_stripe_subscriptions, in order
CancelCalls(fails_at, stripe_active) ==
    IF TEST_MODE THEN <<>>
    ELSE IF fails_at = "list" \/ stripe_active = {} THEN <<"Subscription.list">>
    ELSE <<"Subscription.list", "Subscription.delete">>

\* variant: the existing subscriptions are canceled before the payment
\* methods are looked at
create_direct_subscriptionCancelsFirst(fails_at, stripe_active) ==
    IF fails_at = "list"
    THEN [status |-> 400, subscriptions_db |-> subscriptions_db,
          calls |-> CancelCalls(fails_at, stripe_active)]
    ELSE [status |-> IF fails_at = "none" THEN 200 ELSE 400,
          subscriptions_db |-> cancel_user_stripe_subscriptions(stripe_active, None),
          calls |-> CancelCalls(fails_at, stripe_active) \o <<"PaymentMethod.list">> \o
                    (IF fails_at \in {"methods", "no_methods"} THEN <<>>
                     ELSE <<"Customer.retrieve">>) \o
                    (IF fails_at \in {"create", "none"}
                     THEN <<"Subscription.create">> ELSE <<>>)]

\* stripe_active: the active subscriptions Stripe lists and cancels; calls: the
\* Stripe calls made, in order
create_direct_subscription(fails_at, stripe_active) ==
    IF fails_at \in {"methods", "no_methods"}
    THEN [status |-> 400, subscriptions_db |-> subscriptions_db,
          calls |-> <<"PaymentMethod.list">>]
    ELSE IF fails_at = "customer"
    THEN [status |-> 400, subscriptions_db |-> subscriptions_db,
          calls |-> <<"PaymentMethod.list", "Customer.retrieve">>]
    ELSE IF fails_at = "list"
    THEN [status |-> 400, subscriptions_db |-> subscriptions_db,
          calls |-> <<"PaymentMethod.list", "Customer.retrieve">> \o
                    CancelCalls(fails_at, stripe_active)]
    ELSE [status |-> IF fails_at = "create" THEN 400 ELSE 200,
          subscriptions_db |-> cancel_user_stripe_subscriptions(stripe_active, None),
          calls |-> <<"PaymentMethod.list", "Customer.retrieve">> \o
                    CancelCalls(fails_at, stripe_active) \o <<"Subscription.create">>]

\* POST /payments/subscribe. tier: the name the product is looked up by
Subscribe(session_id, tier, customer_ok, fails_at, stripe_active) ==
    LET user_id == get_user_profile_from_valid_session(session_id)
        products == get_product_by_name(repository, tier)
        ensured == ensure_stripe_customer(user_id, customer_ok)
        asked == users_db[user_id].stripe_customer_id = None
        created == create_direct_subscription(fails_at, stripe_active)
        request == [op |-> "subscribe", sid |-> session_id, tier |-> tier,
                    fails_at |-> fails_at]
    IN  /\ IF user_id = NoUser
           THEN /\ resp' = request @@
                        [status |-> 401, uid |-> NoUser, stripe_error |-> FALSE,
                         failed_call |-> None, calls |-> <<>>]
                /\ UNCHANGED <<users_db, subscriptions_db>>
           ELSE IF Cardinality(products) > 1
           THEN /\ resp' = request @@
                        [status |-> 500, uid |-> user_id, stripe_error |-> FALSE,
                         failed_call |-> None, calls |-> <<>>]
                /\ UNCHANGED <<users_db, subscriptions_db>>
           ELSE IF ensured.status # 200
           THEN /\ resp' = request @@
                        [status |-> ensured.status, uid |-> user_id,
                         stripe_error |-> TRUE, failed_call |-> "Customer.create",
                         calls |-> <<>>]
                /\ UNCHANGED <<users_db, subscriptions_db>>
           ELSE IF products = {}
           \* tier is None: tier.stripe_price_id raises inside the try block
           THEN /\ users_db' = ensured.users_db
                /\ resp' = request @@
                        [status |-> 500, uid |-> user_id, stripe_error |-> FALSE,
                         failed_call |-> None, calls |-> <<>>]
                /\ UNCHANGED subscriptions_db
           ELSE /\ users_db' = ensured.users_db
                /\ subscriptions_db' = created.subscriptions_db
                /\ resp' = request @@
                        [status |-> created.status, uid |-> user_id,
                         stripe_error |-> fails_at \notin {"none", "no_methods"},
                         failed_call |->
                            CASE fails_at = "methods" -> "PaymentMethod.list"
                              [] fails_at = "customer" -> "Customer.retrieve"
                              [] fails_at = "list" -> "Subscription.list"
                              [] fails_at = "create" -> "Subscription.create"
                              [] OTHER -> None,
                         calls |-> created.calls]
        /\ UNCHANGED <<sessions, issued, now, payments_db, products_db, repository,
                       delivered, envVars>>

DoGetCustomer ==
    /\ Idle
    /\ \E s \in Cookies, customer_ok \in BOOLEAN, retrieve_ok \in BOOLEAN :
            GetCustomer(s, customer_ok, retrieve_ok)

DoRecordSubscription ==
    /\ Idle
    /\ \E u \in DOMAIN users_db, t \in ProductTiers, x \in StripeSubscriptionIds :
            RecordSubscription(u, make_uuid(SubscriptionProductName(t)), x)

DoCancelSubscription ==
    /\ Idle
    /\ \E s \in Cookies, id \in SubscriptionIds, now_flag \in BOOLEAN,
          ok \in BOOLEAN, st \in StripeStatuses :
            CancelSubscription(s, id, now_flag, ok, st)

DoSubscribe ==
    /\ Idle
    /\ \E s \in Cookies, t \in ProductTiers, named \in BOOLEAN, customer_ok \in BOOLEAN,
          f \in FailurePoints, active \in SUBSET StripeSubscriptionIds :
            /\ TEST_MODE => f # "list"
            /\ (TEST_MODE \/ f \in {"methods", "customer", "list"}) => active = {}
            /\ Subscribe(s, IF named THEN SubscriptionProductName(t) ELSE t,
                         customer_ok, f, active)

\* checkout sessions of the tiers that have a product
ProductCheckouts == {ev \in SubscriptionEvents : ev.tier \in ProductTiers}

DoSubscriptionWebhook ==
    /\ Idle
    /\ \E ev \in ProductCheckouts :
         \E retrieved \in RetrievedFor(ev), stripe_active \in ActiveFor(ev) :
            StripeWebhook("valid", TRUE, ev, retrieved, stripe_active)

NextSubs ==
    \/ DoRegisterPay
    \/ DoCreateSubscriptionProduct
    \/ DoGetCustomer
    \/ DoRecordSubscription
    \/ DoCancelSubscription
    \/ DoSubscribe
    \/ Respond

\* the webhook secret plays no part in these operations
InitSubs == InitPay /\ webhook_secret = None

SpecSubs == InitSubs /\ [][NextSubs]_vars

\* subscriptions started by checkout webhooks and by direct subscription
NextCheckout ==
    \/ DoRegisterPay
    \/ DoCreateSubscriptionProduct
    \/ DoGetCustomer
    \/ DoRecordSubscription
    \/ DoSubscribe
    \/ DoSubscriptionWebhook
    \/ Respond

SpecCheckout == InitSubs /\ [][NextCheckout]_vars

\* ------------------------------------------------------------- credits
MaxCredits == 4
\* credits granted by a purchase or a subscription
CreditGrants == {0, 1, 3}
\* amounts a caller asks to consume
ConsumeAmounts == -1 .. 3
\* user ids a caller passes: a user's id, or an id no user has
CallerUserIds == {NoUser} \cup UserIds

verify_user_credits(user_id, required_credits) ==
    IF user_id \notin DOMAIN users_db
    THEN [status |-> 404, sufficient |-> FALSE]
    ELSE [status |-> 200, sufficient |-> users_db[user_id].credits >= required_credits]

\* variant: the balance is not verified before the deduction
consume_user_creditsUnverified(user_id, credits_to_consume) ==
    IF user_id \notin DOMAIN users_db
    THEN [status |-> 404, users_db |-> users_db, balance |-> <<>>]
    ELSE [status |-> 200,
          users_db |-> [users_db EXCEPT ![user_id].credits = @ - credits_to_consume],
          balance |-> <<users_db[user_id].credits - credits_to_consume>>]

\* balance: the returned balance, <<>> when an HTTPException is raised
consume_user_credits(user_id, credits_to_consume) ==
    IF verify_user_credits(user_id, credits_to_consume).status = 404
    THEN [status |-> 404, users_db |-> users_db, balance |-> <<>>]
    ELSE IF ~verify_user_credits(user_id, credits_to_consume).sufficient
    THEN [status |-> 402, users_db |-> users_db, balance |-> <<>>]
    ELSE [status |-> 200,
          users_db |-> [users_db EXCEPT ![user_id].credits = @ - credits_to_consume],
          balance |-> <<users_db[user_id].credits - credits_to_consume>>]

\* a call of update_user_credits, as a purchase or a subscription makes
UpdateUserCredits(user_id, credits) ==
    /\ IF user_id \notin DOMAIN users_db
       THEN /\ resp' = [op |-> "update_user_credits", status |-> 404,
                        sid |-> NoSession, uid |-> user_id]
            /\ UNCHANGED users_db
       ELSE /\ users_db[user_id].credits + credits <= MaxCredits
            /\ users_db' = update_user_credits(users_db, user_id, credits)
            /\ resp' = [op |-> "update_user_credits", status |-> 200,
                        sid |-> NoSession, uid |-> user_id]
    /\ UNCHANGED <<sessions, issued, now, payVars>>

\* a call of consume_user_credits
ConsumeUserCredits(user_id, credits_to_consume) ==
    LET done == consume_user_credits(user_id, credits_to_consume)
    IN  /\ user_id \in DOMAIN users_db =>
                users_db[user_id].credits - credits_to_consume <= MaxCredits
        /\ users_db' = done.users_db
        /\ resp' = [op |-> "consume_user_credits", status |-> done.status,
                    sid |-> NoSession, uid |-> user_id,
                    amount |-> credits_to_consume, balance |-> done.balance]
        /\ UNCHANGED <<sessions, issued, now, payVars>>

DoUpdateUserCredits ==
    /\ Idle
    /\ \E u \in CallerUserIds, c \in CreditGrants : UpdateUserCredits(u, c)

DoConsumeUserCredits ==
    /\ Idle
    /\ \E u \in CallerUserIds, n \in ConsumeAmounts : ConsumeUserCredits(u, n)

NextCredits ==
    \/ DoRegisterPay
    \/ DoUpdateUserCredits
    \/ DoConsumeUserCredits
    \/ Respond

SpecCredits == InitSubs /\ [][NextCredits]_vars

\* ------------------------------------------------------- token purchases
\* token counts a request asks for
TokenAmounts == {49, 50, 51}
\* what stripe.PaymentIntent.create answers
PaymentOutcomes == {"succeeded", "requires_action", "declined", "error"}

Max(a, b) == IF a >= b THEN a ELSE b

\* max(50, int(0.5 / token_price) + 1), with token_price in cents
min_tokens(token_price) == Max(50, (50 \div token_price) + 1)

\* the first product of products_db with the name of tokens_product, if any
TokenProducts == {i \in DOMAIN products_db : products_db[i].name = tokens_product.name}

\* POST /payments/buy-tokens-checkout. checkout_ok: whether Stripe creates the
\* checkout session
BuyTokensCheckout(session_id, amount, customer_ok, checkout_ok) ==
    LET user_id == get_user_profile_from_valid_session(session_id)
        ensured == ensure_stripe_customer(user_id, customer_ok)
        request == [op |-> "buy_tokens_checkout", sid |-> session_id,
                    name |-> tokens_product.name, amount |-> amount]
    IN  /\ IF user_id = NoUser
           THEN /\ resp' = request @@ [status |-> 401, uid |-> NoUser, detail |-> None,
                                       price |-> NoPrice]
                /\ UNCHANGED users_db
           ELSE IF TokenProducts = {}
           THEN /\ resp' = request @@ [status |-> 404, uid |-> user_id,
                                       detail |-> "not found", price |-> NoPrice]
                /\ UNCHANGED users_db
           ELSE IF amount < min_tokens(tokens_product.price)
           THEN /\ resp' = request @@ [status |-> 400, uid |-> user_id,
                                       detail |-> "minimum",
                                       price |-> tokens_product.price]
                /\ UNCHANGED users_db
           ELSE /\ users_db' = ensured.users_db
                /\ resp' = request @@
                        [status |-> IF ensured.status # 200 THEN ensured.status
                                    ELSE IF checkout_ok THEN 200 ELSE 400,
                         uid |-> user_id, detail |-> "stripe",
                         price |-> tokens_product.price]
        /\ UNCHANGED <<sessions, issued, now, payVars>>

\* POST /payments/buy-tokens. name: the product bought; paid: the outcome of the
\* payment with the saved payment method
BuyTokensDirect(session_id, name, amount, customer_ok, paid) ==
    LET user_id == get_user_profile_from_valid_session(session_id)
        products == get_product_by_name(repository, name)
        token_product == repository[CHOOSE id \in products : TRUE]
        ensured == ensure_stripe_customer(user_id, customer_ok)
        request == [op |-> "buy_tokens", sid |-> session_id, name |-> name,
                    amount |-> amount]
    IN  /\ IF user_id = NoUser
           THEN /\ resp' = request @@ [status |-> 401, uid |-> NoUser, detail |-> None,
                                       price |-> NoPrice]
                /\ UNCHANGED users_db
           ELSE IF Cardinality(products) > 1
           THEN /\ resp' = request @@ [status |-> 500, uid |-> user_id, detail |-> None,
                                       price |-> NoPrice]
                /\ UNCHANGED users_db
           ELSE IF products = {}
           THEN /\ resp' = request @@ [status |-> 404, uid |-> user_id,
                                       detail |-> "not found", price |-> NoPrice]
                /\ UNCHANGED users_db
           ELSE IF amount < min_tokens(token_product.price)
           THEN /\ resp' = request @@ [status |-> 400, uid |-> user_id,
                                       detail |-> "minimum",
                                       price |-> token_product.price]
                /\ UNCHANGED users_db
           ELSE /\ users_db' = ensured.users_db
                /\ resp' = request @@
                        [status |-> IF ensured.status # 200 THEN ensured.status
                                    ELSE CASE paid = "succeeded" -> 200
                                           [] paid = "error" -> 400
                                           [] OTHER -> 402,
                         uid |-> user_id, detail |-> "stripe",
                         price |-> token_product.price]
        /\ UNCHANGED <<sessions, issued, now, payVars>>

DoBuyTokensCheckout ==
    /\ Idle
    /\ \E s \in Cookies, n \in TokenAmounts, customer_ok \in BOOLEAN,
          checkout_ok \in BOOLEAN :
            BuyTokensCheckout(s, n, customer_ok, checkout_ok)

DoBuyTokensDirect ==
    /\ Idle
    /\ \E s \in Cookies, name \in ProductNames, n \in TokenAmounts,
          customer_ok \in BOOLEAN, paid \in PaymentOutcomes :
            /\ TEST_MODE => paid = "succeeded"
            /\ BuyTokensDirect(s, name, n, customer_ok, paid)

NextTokens ==
    \/ DoRegisterPay
    \/ DoCreateProduct
    \/ DoInitializeProducts
    \/ DoBuyTokensCheckout
    \/ DoBuyTokensDirect
    \/ Respond

SpecTokens == InitSubs /\ [][NextTokens]_vars

\* ------------------------------------------------- redelivered webhooks
MaxPayments == 2

\* Stripe delivers again a payment event the webhook has already handled
RedeliverWebhook(ev) ==
    /\ \E p \in DOMAIN payments_db :
            /\ payments_db[p].stripe_payment_id = ev.id
            /\ payments_db[p].metadata = [user_id |-> ev.user_id, tokens |-> ev.tokens]
    /\ Cardinality(DOMAIN payments_db) < MaxPayments
    /\ users_db' = HandleEvent(ev, [ok |-> FALSE], {}).users_db
    /\ payments_db' = HandleEvent(ev, [ok |-> FALSE], {}).payments_db
    /\ subscriptions_db' = HandleEvent(ev, [ok |-> FALSE], {}).subscriptions_db
    /\ resp' = [op |-> "webhook",
                status |-> HandleEvent(ev, [ok |-> FALSE], {}).status,
                sid |-> NoSession, uid |-> NoUser, sig |-> "valid", event |-> ev,
                success |-> HandleEvent(ev, [ok |-> FALSE], {}).success]
    /\ UNCHANGED <<sessions, issued, now, products_db, repository, delivered, envVars>>

DoPaymentWebhook ==
    /\ Idle
    /\ \E ev \in PaymentEvents : StripeWebhook("valid", TRUE, ev, [ok |-> FALSE], {})

DoRedeliverWebhook ==
    /\ Idle
    /\ \E ev \in PaymentEvents : RedeliverWebhook(ev)

NextRedelivery ==
    \/ DoRegisterPay
    \/ DoPaymentWebhook
    \/ DoRedeliverWebhook
    \/ Respond

SpecRedelivery == InitSubs /\ [][NextRedelivery]_vars

\* --------------------------------------- subscription lifecycle webhooks
\* tiers a subscription checkout gives a user
CheckoutTiers == {"Individual", "Team"}

\* a call of update_user_subscription_tier, as the subscription checkout makes
UpdateUserSubscriptionTier(user_id, tier) ==
    /\ IF user_id \notin DOMAIN users_db
       THEN /\ resp' = [op |-> "update_user_subscription_tier", status |-> 404,
                        sid |-> NoSession, uid |-> user_id]
            /\ UNCHANGED users_db
       ELSE /\ users_db' = update_user_subscription_tier(users_db, user_id, tier)
            /\ resp' = [op |-> "update_user_subscription_tier", status |-> 200,
                        sid |-> NoSession, uid |-> user_id]
    /\ UNCHANGED <<sessions, issued, now, payVars>>

DoUpdateUserSubscriptionTier ==
    /\ Idle
    /\ \E u \in CallerUserIds, t \in CheckoutTiers : UpdateUserSubscriptionTier(u, t)

\* customer.subscription.deleted and invoice.payment_succeeded deliveries
DoLifecycleWebhook ==
    /\ Idle
    /\ \E ev \in DeletedEvents \cup InvoiceEvents :
         \E retrieved \in RetrievedFor(ev) :
            StripeWebhook("valid", TRUE, ev, retrieved, {})

NextLifecycle ==
    \/ DoRegisterPay
    \/ DoCreateSubscriptionProduct
    \/ DoRecordSubscription
    \/ DoUpdateUserSubscriptionTier
    \/ DoLifecycleWebhook
    \/ Respond

SpecLifecycle == InitSubs /\ [][NextLifecycle]_vars

\* ------------------------------------------------------ payment methods
\* the Stripe call of a payment-method request that fails, if any
MethodFailures == {"list", "customer", "attach", "modify", "detach", "none"}

\* the user's stored record
get_user_model(user_id) == users_db[user_id]

\* Stripe attaches a payment method to one customer only
Attachable(customer_id, payment_method_id) ==
    \A c \in CustomerIds \ {customer_id} :
        payment_method_id \notin stripe_customers[c].methods

\* POST /payments/methods
AddPaymentMethod(session_id, payment_method_id, customer_ok, fails_at) ==
    LET user_id == get_user_profile_from_valid_session(session_id)
        ensured == ensure_stripe_customer(user_id, customer_ok)
        c == ensured.customer_id
        attached == [stripe_customers EXCEPT ![c].methods = @ \cup {payment_method_id}]
        first == Cardinality(attached[c].methods) = 1
        request == [op |-> "add_payment_method", sid |-> session_id,
                    payment_method_id |-> payment_method_id, calls |-> <<>>]
    IN  /\ IF user_id = NoUser
           THEN /\ resp' = request @@ [status |-> 401, uid |-> NoUser]
                /\ UNCHANGED <<users_db, stripe_customers>>
           ELSE IF ensured.status # 200
           THEN /\ resp' = request @@ [status |-> 400, uid |-> user_id]
                /\ UNCHANGED <<users_db, stripe_customers>>
           ELSE IF fails_at = "attach" \/ ~Attachable(c, payment_method_id)
           THEN /\ resp' = request @@ [status |-> 400, uid |-> user_id]
                /\ users_db' = ensured.users_db
                /\ UNCHANGED stripe_customers
           ELSE IF fails_at = "list" \/ (first /\ fails_at = "modify")
           THEN /\ resp' = request @@ [status |-> 400, uid |-> user_id]
                /\ users_db' = ensured.users_db
                /\ stripe_customers' = attached
           ELSE /\ resp' = request @@ [status |-> 200, uid |-> user_id]
                /\ users_db' = ensured.users_db
                /\ stripe_customers' =
                        IF first
                        THEN [attached EXCEPT
                                ![c].default_payment_method = payment_method_id]
                        ELSE attached
        /\ UNCHANGED <<sessions, issued, now, storeVars, delivered, webhook_secret,
                       TEST_MODE, tasks, running>>

\* POST /payments/methods/default/{payment_method_id}
SetDefaultPaymentMethod(session_id, payment_method_id, fails_at) ==
    LET user_id == get_user_profile_from_valid_session(session_id)
        c == get_user_model(user_id).stripe_customer_id
        request == [op |-> "set_default_payment_method", sid |-> session_id,
                    payment_method_id |-> payment_method_id, calls |-> <<>>]
    IN  /\ IF user_id = NoUser
           THEN /\ resp' = request @@ [status |-> 401, uid |-> NoUser]
                /\ UNCHANGED stripe_customers
           ELSE IF fails_at = "list"
           THEN /\ resp' = request @@ [status |-> 400, uid |-> user_id]
                /\ UNCHANGED stripe_customers
           \* without a customer Stripe lists no payment method
           ELSE IF c = None \/ payment_method_id \notin stripe_customers[c].methods
           THEN /\ resp' = request @@ [status |-> 404, uid |-> user_id]
                /\ UNCHANGED stripe_customers
           ELSE IF fails_at = "modify"
           THEN /\ resp' = request @@ [status |-> 400, uid |-> user_id]
                /\ UNCHANGED stripe_customers
           ELSE /\ resp' = request @@ [status |-> 200, uid |-> user_id]
                /\ stripe_customers' =
                        [stripe_customers EXCEPT
                            ![c].default_payment_method = payment_method_id]
        /\ UNCHANGED <<authVars, now, storeVars, delivered, webhook_secret, TEST_MODE,
                       tasks, running>>

\* variant: the default is left as it is
ClearedDefaultNever(customer, payment_method_id) == customer

\* the customer after Customer.modify cleared the default, if it is this method
ClearedDefault(customer, payment_method_id) ==
    IF customer.default_payment_method = payment_method_id
    THEN [customer EXCEPT !.default_payment_method = None]
    ELSE customer

\* DELETE /payments/methods/{payment_method_id}. calls: the Stripe calls that
\* change the customer, in order
DeletePaymentMethod(session_id, payment_method_id, fails_at) ==
    LET user_id == get_user_profile_from_valid_session(session_id)
        c == users_db[user_id].stripe_customer_id
        is_default == stripe_customers[c].default_payment_method = payment_method_id
        cleared == [stripe_customers EXCEPT
                        ![c] = ClearedDefault(@, payment_method_id)]
        request == [op |-> "delete_payment_method", sid |-> session_id,
                    payment_method_id |-> payment_method_id]
    IN  /\ IF user_id = NoUser
           THEN /\ resp' = request @@ [status |-> 401, uid |-> NoUser, calls |-> <<>>]
                /\ UNCHANGED stripe_customers
           ELSE IF c = None \/ fails_at \in {"list", "customer"}
           THEN /\ resp' = request @@ [status |-> 400, uid |-> user_id, calls |-> <<>>]
                /\ UNCHANGED stripe_customers
           ELSE IF payment_method_id \notin stripe_customers[c].methods
           THEN /\ resp' = request @@ [status |-> 404, uid |-> user_id, calls |-> <<>>]
                /\ UNCHANGED stripe_customers
           ELSE IF is_default /\ fails_at = "modify"
           THEN /\ resp' = request @@ [status |-> 400, uid |-> user_id, calls |-> <<>>]
                /\ UNCHANGED stripe_customers
           ELSE IF fails_at = "detach"
           THEN /\ resp' = request @@
                        [status |-> 400, uid |-> user_id,
                         calls |-> IF is_default THEN <<"Customer.modify">> ELSE <<>>]
                /\ stripe_customers' = cleared
           ELSE /\ resp' = request @@
                        [status |-> 200, uid |-> user_id,
                         calls |-> IF is_default
                                   THEN <<"Customer.modify", "PaymentMethod.detach">>
                                   ELSE <<"PaymentMethod.detach">>]
                /\ stripe_customers' =
                        [cleared EXCEPT ![c].methods = @ \ {payment_method_id}]
        /\ UNCHANGED <<authVars, now, storeVars, delivered, webhook_secret, TEST_MODE,
                       tasks, running>>

DoAddPaymentMethod ==
    /\ Idle
    /\ \E s \in Cookies, pm \in PaymentMethodIds, customer_ok \in BOOLEAN,
          f \in {"attach", "list", "modify", "none"} :
            AddPaymentMethod(s, pm, customer_ok, f)

DoSetDefaultPaymentMethod ==
    /\ Idle
    /\ \E s \in Cookies, pm \in PaymentMethodIds, f \in {"list", "modify", "none"} :
            SetDefaultPaymentMethod(s, pm, f)

DoDeletePaymentMethod ==
    /\ Idle
    /\ \E s \in Cookies, pm \in PaymentMethodIds, f \in MethodFailures \ {"attach"} :
            DeletePaymentMethod(s, pm, f)

NextMethods ==
    \/ DoRegisterPay
    \/ DoAddPaymentMethod
    \/ DoSetDefaultPaymentMethod
    \/ DoDeletePaymentMethod
    \/ Respond

SpecMethods == InitSubs /\ [][NextMethods]_vars

\* ------------------------------------------------- requests in flight
\* token counts of the purchases the requests are about
TaskAmounts == {50, 100}

\* statements of a handler: "body" is `await request.body()`, "record" is
\* record_payment, "read" and "write" are the two halves of update_user_credits
InFlight(r) == tasks[r].pc \notin {"none", "done"}

\* variant: the event loop may switch to another request after any statement
YieldsAfterEveryStatement(pc) == TRUE

\* the statements at which a coroutine gives the event loop to other requests
Yields(pc) == pc = "body"

\* requests are numbered in the order they arrive
NextRequest(r) ==
    /\ tasks[r].pc = "none"
    /\ \A q \in 1 .. r - 1 : tasks[q].pc # "none"

\* POST /payments/webhook arrives with a payment event for n tokens of user u
ReceiveWebhook(r, user_id, amount) ==
    /\ NextRequest(r)
    /\ tasks' = [tasks EXCEPT ![r] =
            [ kind |-> "webhook", user_id |-> user_id, amount |-> amount,
              pc |-> "body", balance |-> 0, status |-> 0 ]]
    /\ UNCHANGED <<authVars, now, resp, storeVars, delivered, webhook_secret,
                   TEST_MODE, stripe_customers, running>>

\* GET /payments/verify arrives. paid: Stripe reports the checkout as paid,
\* with the tokens in its metadata
ReceiveVerify(r, session_id, amount, paid) ==
    LET user_id == get_user_profile_from_valid_session(session_id)
    IN  /\ NextRequest(r)
        /\ tasks' = [tasks EXCEPT ![r] =
                [ kind |-> "verify", user_id |-> user_id,
                  amount |-> IF TEST_MODE \/ ~paid THEN 0 ELSE amount,
                  pc |-> IF user_id = NoUser \/ TEST_MODE \/ ~paid
                         THEN "done" ELSE "read",
                  balance |-> 0,
                  status |-> IF user_id = NoUser THEN 401
                             ELSE IF TEST_MODE \/ ~paid THEN 200 ELSE 0 ]]
        /\ UNCHANGED <<authVars, now, resp, storeVars, delivered, webhook_secret,
                       TEST_MODE, stripe_customers, running>>

\* the event loop runs the next statement of request r
Step(r) ==
    LET task == tasks[r]
        next == CASE task.pc = "body" -> [task EXCEPT !.pc = "record"]
                  [] task.pc = "record" -> [task EXCEPT !.pc = "read"]
                  [] task.pc = "read" ->
                        IF task.user_id \notin DOMAIN users_db
                        THEN [task EXCEPT !.pc = "done", !.status = 404]
                        ELSE [task EXCEPT !.pc = "write",
                                          !.balance = users_db[task.user_id].credits
                                                        + task.amount]
                  [] OTHER -> [task EXCEPT !.pc = "done", !.status = 200]
    IN  /\ InFlight(r)
        /\ running \in {0, r}
        /\ tasks' = [tasks EXCEPT ![r] = next]
        /\ running' = IF Yields(task.pc) \/ next.pc = "done" THEN 0 ELSE r
        /\ payments_db' =
                IF task.pc = "record"
                THEN record_payment(task.user_id, Amount(999), "usd", "cs_1",
                                    [user_id |-> task.user_id,
                                     tokens |-> ToString(task.amount)])
                ELSE payments_db
        /\ users_db' =
                IF task.pc = "write"
                THEN [users_db EXCEPT ![task.user_id].credits = task.balance]
                ELSE users_db
        /\ UNCHANGED <<sessions, issued, now, resp, subscriptions_db, products_db,
                       repository, delivered, webhook_secret, TEST_MODE,
                       stripe_customers>>

DoReceiveWebhook ==
    /\ \E r \in RequestIds : tasks[r].pc = "none"
    /\ \E r \in RequestIds, u \in UserIds, n \in TaskAmounts : ReceiveWebhook(r, u, n)

DoReceiveVerify ==
    /\ \E r \in RequestIds : tasks[r].pc = "none"
    /\ \E r \in RequestIds, s \in Cookies, n \in TaskAmounts, paid \in BOOLEAN :
            ReceiveVerify(r, s, n, paid)

\* the event loop picks a request that can run
DoStep ==
    /\ \E r \in RequestIds : InFlight(r)
    /\ \E r \in RequestIds : Step(r)

NextConcurrent ==
    \/ DoRegisterPay
    \/ DoReceiveWebhook
    \/ DoReceiveVerify
    \/ DoStep
    \/ Respond

SpecConcurrent == InitSubs /\ [][NextConcurrent]_vars

\* ===================================================================
\* Properties
\* ===================================================================

\* the handler of op answered in this step
Served(op) == resp'.op = op /\ resp.op = "idle"

UsersWithEmail(email) == {u \in DOMAIN users_db : users_db[u].email = email}

\* C1: register_user answers 400 to a registration whose email a stored user
\* already has and leaves users_db and sessions as they were; and in every
\* reachable state no two stored users share an email.
UniqueEmails ==
    \A u, v \in DOMAIN users_db : users_db[u].email = users_db[v].email => u = v

C1_DuplicateEmailRejected ==
    /\ [](UniqueEmails)
    /\ [][ (Served("register") /\ UsersWithEmail(resp'.email) # {})
            => (resp'.status = 400 /\ users_db' = users_db /\ sessions' = sessions)
       ]_vars

C1_Witness ==
    /\ resp.op = "register"
    /\ resp.status = 400
    /\ Cardinality(DOMAIN users_db) = 2
    /\ UsersWithEmail(resp.email) # {}

\* C2: POST /auth/login answers 401 and creates no session when no user has the
\* email, the stored user has no hashed password, or the password does not
\* verify against the stored hash; it creates a session, for the user with
\* that email, only when the password verifies.
PasswordMatches(email, password) ==
    \E u \in UsersWithEmail(email) :
        /\ users_db[u].hashed_password # NoHash
        /\ users_db[u].hashed_password = <<"bcrypt", password>>

C2_LoginRejectsBadCredentials ==
    [][ Served("login") =>
          /\ ~PasswordMatches(resp'.email, resp'.password)
                => (resp'.status = 401 /\ sessions' = sessions /\ issued' = issued)
          /\ sessions' # sessions
                => /\ PasswordMatches(resp'.email, resp'.password)
                   /\ resp'.status = 200
                   /\ DOMAIN sessions' = DOMAIN sessions \cup {resp'.sid}
                   /\ resp'.sid \notin DOMAIN sessions
                   /\ sessions'[resp'.sid].user_id \in UsersWithEmail(resp'.email)
       ]_vars

C2_Witness ==
    /\ resp.op = "login"
    /\ resp.status = 401
    /\ \E u \in UsersWithEmail(resp.email) :
            /\ users_db[u].hashed_password # NoHash
            /\ users_db[u].hashed_password # <<"bcrypt", resp.password>>

\* C3: POST /auth/mfa/verify sets the session user's mfa_enabled only when the
\* submitted code is the code of that user's stored secret at the time of the
\* request; with another code, or with no stored secret, it answers 400 and
\* leaves the users as they were; and nothing else ever enables MFA.
CodeVerifies(user_id, code) ==
    /\ users_db[user_id].mfa_secret # None
    /\ code = TotpAt(users_db[user_id].mfa_secret, now)

C3_MfaEnabledOnlyByMatchingCode ==
    /\ [][ (Served("mfa_verify") /\ resp'.sid \in DOMAIN sessions) =>
            LET user_id == sessions[resp'.sid].user_id
            IN  IF CodeVerifies(user_id, resp'.code)
                THEN /\ resp'.status = 200
                     /\ users_db' = [users_db EXCEPT ![user_id].mfa_enabled = TRUE]
                ELSE /\ resp'.status = 400
                     /\ users_db' = users_db
       ]_vars
    /\ [][ \A u \in DOMAIN users_db :
            (~users_db[u].mfa_enabled /\ users_db'[u].mfa_enabled)
                => /\ Served("mfa_verify")
                   /\ resp'.status = 200
                   /\ resp'.uid = u
                   /\ CodeVerifies(u, resp'.code)
       ]_vars

C3_Witness ==
    /\ resp.op = "mfa_verify"
    /\ resp.status = 400
    /\ resp.uid \in DOMAIN users_db
    /\ users_db[resp.uid].mfa_secret # None
    /\ resp.code # TotpAt(users_db[resp.uid].mfa_secret, now)
    /\ ~users_db[resp.uid].mfa_enabled

\* C4: a checkout.session.completed event of mode "payment" whose metadata
\* names user U and N tokens adds N to U's credits and changes nothing else in
\* users_db, and records one payment for U whose amount is amount_total/100
\* and whose stripe_payment_id is the checkout session id.
TokenPurchase(ev) ==
    /\ ev.type = "checkout.session.completed"
    /\ ev.mode = "payment"
    /\ ev.user_id \in DOMAIN users_db
    /\ ev.tokens \in {"50", "100"}

TokensOf(ev) == IF ev.tokens = "50" THEN 50 ELSE 100

C4_PaymentCreditsTheRightUser ==
    [][ (Served("webhook") /\ resp'.status # 400 /\ TokenPurchase(resp'.event)) =>
          LET ev == resp'.event
              new == DOMAIN payments_db' \ DOMAIN payments_db
          IN  /\ resp'.status = 200
              /\ DOMAIN users_db' = DOMAIN users_db
              /\ users_db'[ev.user_id] =
                    [users_db[ev.user_id] EXCEPT !.credits = @ + TokensOf(ev)]
              /\ \A v \in DOMAIN users_db \ {ev.user_id} : users_db'[v] = users_db[v]
              /\ Cardinality(new) = 1
              /\ \A p \in DOMAIN payments_db : payments_db'[p] = payments_db[p]
              /\ \A p \in new :
                    /\ payments_db'[p].user_id = ev.user_id
                    /\ payments_db'[p].stripe_payment_id = ev.id
                    /\ 100 * payments_db'[p].amount.units + payments_db'[p].amount.cents
                            = ev.amount_total
                    /\ payments_db'[p].amount.cents \in 0 .. 99
       ]_vars

C4_Witness ==
    /\ resp.op = "webhook"
    /\ resp.status = 200
    /\ TokenPurchase(resp.event)
    /\ users_db[resp.event.user_id].credits = 50
    /\ \E v \in DOMAIN users_db : v # resp.event.user_id /\ users_db[v].credits = 0
    /\ \E p \in DOMAIN payments_db :
            /\ payments_db[p].user_id = resp.event.user_id
            /\ payments_db[p].amount = [units |-> 9, cents |-> 99]

\* C5: a checkout.session.completed event of mode "subscription" whose metadata
\* names user U and a tier T whose subscription product has been created sets
\* U's subscription_tier to T, adds SUBSCRIPTION_TIERS[T].credits to U's credits
\* and leaves an active subscription with the event's Stripe subscription id
\* among get_user_subscriptions(U).
SubscriptionCheckout(ev) ==
    /\ ev.type = "checkout.session.completed"
    /\ ev.mode = "subscription"
    /\ ev.user_id \in DOMAIN users_db
    /\ ev.tier \in TierNames
    /\ \E id \in DOMAIN repository : repository[id].metadata.tier = ev.tier

C5_SubscriptionCheckoutRecorded ==
    [][ (Served("webhook") /\ resp'.status = 200 /\ SubscriptionCheckout(resp'.event)) =>
          LET ev == resp'.event
          IN  /\ users_db'[ev.user_id].subscription_tier = ev.tier
              /\ users_db'[ev.user_id].credits =
                    users_db[ev.user_id].credits + SUBSCRIPTION_TIERS[ev.tier].credits
              /\ \E s \in DOMAIN subscriptions_db' :
                    /\ subscriptions_db'[s].user_id = ev.user_id
                    /\ subscriptions_db'[s].status = "active"
                    /\ subscriptions_db'[s].stripe_subscription_id = ev.subscription
       ]_vars

\* C6: with STRIPE_WEBHOOK_SECRET configured, a webhook request changes the
\* local records only if its signature passed verification, and a request whose
\* signature fails verification is answered 400 and changes nothing.
LocalRecords == <<users_db, payments_db, subscriptions_db>>

C6_OnlyVerifiedWebhooksChangeState ==
    [][ (Served("webhook") /\ webhook_secret # None) =>
          /\ LocalRecords' # LocalRecords => resp'.sig = "valid"
          /\ resp'.sig = "invalid" => (resp'.status = 400 /\ LocalRecords' = LocalRecords)
       ]_vars

\* C7: a session is accepted by the session-protected endpoints only while its
\* expiry, creation time plus 24 hours, has not passed; a request with a session
\* whose expiry is in the past is answered 401.
ProtectedOps == {"me", "mfa_setup", "mfa_verify", "mfa_validate"}

C7_ExpiredSessionRejected ==
    (/\ resp.op \in ProtectedOps
     /\ resp.sid \in DOMAIN sessions
     /\ sessions[resp.sid].expires < now)
        => resp.status = 401

\* C8: a request to a session-protected auth endpoint succeeds only if its
\* cookie is a key of sessions, and then acts on the user the session was
\* created for; a missing or unknown session id gets 401; logout removes the
\* session, a removed session never returns, so every later request with it
\* gets 401.
C8_SessionGatesProtectedEndpoints ==
    /\ [][ \A op \in ProtectedOps : Served(op) =>
            IF resp'.sid \in DOMAIN sessions /\ resp'.sid # NoSession
            THEN /\ resp'.status # 401
                 /\ resp'.uid = sessions[resp'.sid].user_id
                 /\ \A v \in DOMAIN users_db \ {resp'.uid} : users_db'[v] = users_db[v]
            ELSE /\ resp'.status = 401
                 /\ users_db' = users_db
       ]_vars
    /\ [][ Served("logout") =>
            /\ resp'.sid \notin DOMAIN sessions'
            /\ \A s \in DOMAIN sessions \ {resp'.sid} :
                    s \in DOMAIN sessions' /\ sessions'[s] = sessions[s]
       ]_vars
    /\ [][ /\ \A s \in 1 .. issued : s \notin DOMAIN sessions => s \notin DOMAIN sessions'
           /\ \A s \in DOMAIN sessions \cap DOMAIN sessions' :
                    sessions'[s].user_id = sessions[s].user_id
       ]_vars

C8_Witness ==
    /\ resp.op \in ProtectedOps
    /\ resp.status = 401
    /\ resp.sid \in 1 .. issued
    /\ resp.sid \notin DOMAIN sessions

\* C9: a Google callback for an identity whose email, or whose Google id on a
\* user with auth_provider "google", matches a stored user adds no user record
\* and binds the new session to a matching user; a user is registered only
\* when no stored user matches.
GoogleIdentityMatches(email, google_id) ==
    {u \in DOMAIN users_db :
        \/ users_db[u].email = email
        \/ users_db[u].auth_provider = "google" /\ users_db[u].provider_user_id = google_id}

C9_ReturningGoogleUserNotDuplicated ==
    [][ Served("google") =>
          LET M == GoogleIdentityMatches(resp'.email, resp'.google_id)
          IN  /\ M # {} => users_db' = users_db
              /\ (M # {} /\ resp'.status = 200) =>
                    /\ resp'.sid \in DOMAIN sessions' \ DOMAIN sessions
                    /\ sessions'[resp'.sid].user_id \in M
              /\ users_db' # users_db =>
                    /\ M = {}
                    /\ Cardinality(DOMAIN users_db') = Cardinality(DOMAIN users_db) + 1
                    /\ sessions'[resp'.sid].user_id \in DOMAIN users_db' \ DOMAIN users_db
       ]_vars

C9_Witness ==
    /\ resp.op = "google"
    /\ resp.status = 200
    /\ Cardinality(DOMAIN users_db) = 1
    /\ users_db[resp.uid].email # resp.email
    /\ users_db[resp.uid].provider_user_id = resp.google_id
    /\ sessions[resp.sid].user_id = resp.uid

\* C10: POST /auth/mfa/setup stores the generated secret as the session user's
\* mfa_secret, returns that secret, and leaves the user's mfa_enabled flag, the
\* user's other fields and every other user's record unchanged.
C10_SetupStoresSecretOnly ==
    [][ (Served("mfa_setup") /\ resp'.status = 200) =>
          LET user_id == sessions[resp'.sid].user_id
          IN  /\ resp'.secret \in Secrets
              /\ DOMAIN users_db' = DOMAIN users_db
              /\ users_db'[user_id].mfa_secret = resp'.secret
              /\ users_db'[user_id].mfa_enabled = users_db[user_id].mfa_enabled
              /\ [users_db'[user_id] EXCEPT !.mfa_secret = None]
                    = [users_db[user_id] EXCEPT !.mfa_secret = None]
              /\ \A v \in DOMAIN users_db \ {user_id} : users_db'[v] = users_db[v]
       ]_vars

C10_Witness ==
    /\ resp.op = "mfa_setup"
    /\ resp.status = 200
    /\ users_db[resp.uid].mfa_secret = resp.secret
    /\ ~users_db[resp.uid].mfa_enabled
    /\ Cardinality(DOMAIN users_db) = 2

\* C11: POST /payments/products (create_product with update_if_exists false)
\* for a name a stored product already has is answered 400 with a detail that
\* contains "already exists" and leaves the store unchanged; the store never
\* holds two products of one name.
ProductsNamed(name) == {id \in DOMAIN repository : repository[id].name = name}

OneProductPerName ==
    \A id1, id2 \in DOMAIN repository :
        repository[id1].name = repository[id2].name => id1 = id2

C11_DuplicateProductRejected ==
    /\ [](OneProductPerName)
    /\ [][ (Served("create_product") /\ ProductsNamed(resp'.name) # {}) =>
            /\ repository' = repository
            /\ resp'.status # 401 =>
                    (resp'.status = 400 /\ resp'.detail = "already exists")
       ]_vars

C11_Witness ==
    /\ resp.op = "create_product"
    /\ resp.status = 400
    /\ resp.detail = "already exists"
    /\ \E id \in ProductsNamed(resp.name) :
            repository[id].description # resp.description

\* C12: DELETE /payments/products/{name} for a stored product is answered 200
\* and the product is gone from the store (so from GET /payments/products)
\* afterwards; for a name no stored product has it is answered 404 and the
\* store is unchanged.
C12_DeleteRemovesProduct ==
    [][ (Served("delete_product") /\ resp'.status # 401) =>
            IF ProductsNamed(resp'.name) # {}
            THEN /\ resp'.status = 200
                 /\ \A id \in DOMAIN repository' : repository'[id].name # resp'.name
            ELSE /\ resp'.status = 404
                 /\ repository' = repository
       ]_vars

\* C13: a completed POST /payments/initialize-products leaves one subscription
\* product for each paid tier (Individual, Team, Enterprise), none for Free, and
\* the Tokens product: exactly four products from an empty store, and the same
\* number of products as before when those four are already stored.
PaidTierNames == {"Individual", "Team", "Enterprise"}

DefaultProductIds ==
    {<<"uuid5", t \o " Subscription">> : t \in PaidTierNames} \cup {<<"uuid5", "Tokens">>}

StripeBackedOps == {"get_customer", "cancel_subscription", "subscribe"}

C16_CancelAtPeriodEndStaysActive ==
    [][ (Served("cancel_subscription") /\ resp'.status = 200) =>
            LET before == subscriptions_db[resp'.subscription_id]
                after == subscriptions_db'[resp'.subscription_id]
            IN  /\ ~resp'.cancel_immediately =>
                        /\ before.status = "active" => after.status = "active"
                        /\ after.cancel_at_period_end
                        /\ after.current_period_end = before.current_period_end
                /\ resp'.cancel_immediately =>
                        /\ after.status = "canceled"
                        /\ ~after.cancel_at_period_end
                /\ resp'.result = after.status
       ]_vars

\* C18: every user's subscription_tier is at all times one of the keys of
\* SUBSCRIPTION_TIERS (Free, Individual, Team, Enterprise), whatever tier the
\* metadata of a webhook event carries.
C18_TierIsAlwaysKnown ==
    \A u \in DOMAIN users_db : users_db[u].subscription_tier \in TierNames

\* C17: after a subscription checkout webhook has been handled for a user, the
\* user has exactly one active subscription, the newly created one: every
\* subscription of the user that was active before has been canceled.
ActiveSubscriptions(subs, user_id) ==
    {s \in DOMAIN subs : subs[s].user_id = user_id /\ subs[s].status = "active"}

C17_OnlyTheNewSubscriptionIsActive ==
    [][ ( /\ Served("webhook")
          /\ resp'.status = 200
          /\ resp'.success
          /\ resp'.event.mode = "subscription"
          /\ resp'.event.tier \in TierNames
          /\ resp'.event.user_id \in DOMAIN users_db ) =>
            LET active == ActiveSubscriptions(subscriptions_db', resp'.event.user_id)
            IN  /\ Cardinality(active) = 1
                /\ \A s \in active :
                        subscriptions_db'[s].stripe_subscription_id =
                            resp'.event.subscription
       ]_vars

\* C19: consume_user_credits(u, n) raises 402 and leaves the balance alone
\* when the user has fewer than n credits, raises 404 for an unknown user, and
\* otherwise deducts exactly n and returns the new balance; a balance that is
\* not negative stays so when the amount is not negative.
C19_ConsumeDeductsExactlyOrRefuses ==
    [][ Served("consume_user_credits") =>
            LET u == resp'.uid
                n == resp'.amount
            IN  IF u \notin DOMAIN users_db
                THEN /\ resp'.status = 404
                     /\ resp'.balance = <<>>
                     /\ users_db' = users_db
                ELSE IF users_db[u].credits < n
                THEN /\ resp'.status = 402
                     /\ resp'.balance = <<>>
                     /\ users_db' = users_db
                ELSE /\ resp'.status = 200
                     /\ users_db'[u].credits = users_db[u].credits - n
                     /\ resp'.balance = <<users_db'[u].credits>>
                     /\ \A v \in DOMAIN users_db \ {u} : users_db'[v] = users_db[v]
                     /\ (n >= 0 /\ users_db[u].credits >= 0) =>
                            users_db'[u].credits >= 0
       ]_vars

\* a consumption was refused while the user held credits
C19_Witness ==
    /\ resp.op = "consume_user_credits"
    /\ resp.status = 402
    /\ resp.uid \in DOMAIN users_db
    /\ users_db[resp.uid].credits > 0
    /\ resp.amount > users_db[resp.uid].credits

\* C20: both token purchase endpoints answer 400, before any Stripe customer
\* is created, to every request of a signed-in user for fewer tokens than the
\* minimum, which is fifty tokens or the smallest count whose price reaches
\* $0.50 if that is more; at one cent a token a request for exactly fifty
\* tokens is not turned away for its amount.
TokenPurchases == {"buy_tokens", "buy_tokens_checkout"}

\* fifty tokens, or the smallest count whose price in cents reaches 50
min_tokensReaching(token_price) ==
    Max(50, (50 + token_price - 1) \div token_price)

C20_MinimumTokenPurchase ==
    [][ ((\E op \in TokenPurchases : Served(op)) /\ resp'.price # NoPrice) =>
            IF resp'.amount < min_tokensReaching(resp'.price)
            THEN /\ resp'.status = 400
                 /\ resp'.detail = "minimum"
                 /\ users_db' = users_db
            ELSE resp'.detail # "minimum"
       ]_vars

\* C15: recording payments is idempotent: however often the same
\* checkout.session.completed payment event is delivered, payments_db holds
\* exactly one payment with the event's checkout session id as its
\* stripe_payment_id.
C15_OnePaymentPerCheckoutSession ==
    \A p, q \in DOMAIN payments_db :
        payments_db[p].stripe_payment_id = payments_db[q].stripe_payment_id => p = q

\* C21: the cancel endpoint changes a subscription only when it belongs to the
\* user of the session: a subscription id that is unknown or belongs to
\* another user is answered with 404 and no record changes, and a request
\* without a valid session changes no subscription.
C21_CancelOnlyOwnSubscription ==
    [][ Served("cancel_subscription") =>
            LET user_id == get_user_profile_from_valid_session(resp'.sid)
                id == resp'.subscription_id
                own == /\ id \in DOMAIN subscriptions_db
                       /\ subscriptions_db[id].user_id = user_id
            IN  /\ user_id = NoUser =>
                        /\ resp'.status = 401
                        /\ subscriptions_db' = subscriptions_db
                /\ (user_id # NoUser /\ ~own) =>
                        /\ resp'.status = 404
                        /\ subscriptions_db' = subscriptions_db
                /\ \A s \in DOMAIN subscriptions_db :
                        subscriptions_db'[s] # subscriptions_db[s] => (s = id /\ own)
       ]_vars

\* a signed-in user was refused the cancellation of another user's
\* subscription
C21_Witness ==
    /\ resp.op = "cancel_subscription"
    /\ resp.status = 404
    /\ resp.uid # NoUser
    /\ resp.subscription_id \in DOMAIN subscriptions_db
    /\ subscriptions_db[resp.subscription_id].user_id # resp.uid
    /\ subscriptions_db[resp.subscription_id].status = "active"

\* the tier of the product a subscription was recorded for, or None
SubscribedTier(s) ==
    IF subscriptions_db[s].product_id \in DOMAIN repository
    THEN repository[subscriptions_db[s].product_id].metadata.tier
    ELSE None

\* C22: a customer.subscription.deleted event for a Stripe subscription that
\* is recorded locally makes that subscription canceled, with
\* cancel_at_period_end false and canceled_at set; the owner's tier is reset to
\* Free exactly when the tier of the subscription's product is the owner's
\* current tier; the owner's credits stay; an event for a subscription that is
\* not recorded changes nothing.
C22_DeletedSubscriptionResetsTier ==
    [][ ( /\ Served("webhook")
          /\ resp'.status = 200
          /\ resp'.event.type = "customer.subscription.deleted" ) =>
            LET s == LocalSubscription(resp'.event.id)
                u == subscriptions_db[s].user_id
            IN  IF s = 0
                THEN LocalRecords' = LocalRecords
                ELSE /\ subscriptions_db'[s].status = "canceled"
                     /\ ~subscriptions_db'[s].cancel_at_period_end
                     /\ subscriptions_db'[s].canceled_at = now
                     /\ u \in DOMAIN users_db =>
                            /\ users_db'[u].credits = users_db[u].credits
                            /\ users_db'[u].subscription_tier =
                                    IF SubscribedTier(s) = users_db[u].subscription_tier
                                    THEN "Free"
                                    ELSE users_db[u].subscription_tier
       ]_vars

\* C23: an invoice.payment_succeeded event whose invoice names a Stripe
\* subscription recorded locally replaces the subscription's period and status
\* by Stripe's values and adds the credit allowance of the tier of the
\* subscription's product to the owner's credits; an invoice without a
\* subscription, or for a subscription that is not recorded, changes nothing.
C23_RenewalAddsTierCredits ==
    [][ ( /\ Served("webhook")
          /\ resp'.status = 200
          /\ resp'.event.type = "invoice.payment_succeeded" ) =>
            LET s == IF resp'.event.subscription = None THEN 0
                     ELSE LocalSubscription(resp'.event.subscription)
                u == subscriptions_db[s].user_id
            IN  IF s = 0
                THEN LocalRecords' = LocalRecords
                ELSE /\ \E r \in {x \in Retrieved : x.ok} :
                            /\ subscriptions_db'[s].status = r.status
                            /\ subscriptions_db'[s].current_period_start =
                                    r.current_period_start
                            /\ subscriptions_db'[s].current_period_end =
                                    r.current_period_end
                     /\ (u \in DOMAIN users_db /\ SubscribedTier(s) \in TierNames) =>
                            users_db'[u].credits =
                                users_db[u].credits
                                    + SUBSCRIPTION_TIERS[SubscribedTier(s)].credits
       ]_vars

\* C24: create_direct_subscription looks for a saved payment method before it
\* cancels anything: a customer without saved payment methods is answered 400
\* and no subscription is canceled, in Stripe or locally; subscriptions are
\* canceled only after the payment-method check and before the new
\* subscription is created.
C24_PaymentMethodCheckedBeforeCancel ==
    [][ (Served("subscribe") /\ resp'.calls # <<>>) =>
            LET calls == resp'.calls
                Cancels == {i \in DOMAIN calls : calls[i] = "Subscription.delete"}
            IN  /\ calls[1] = "PaymentMethod.list"
                /\ resp'.fails_at \in {"methods", "no_methods"} =>
                        /\ resp'.status = 400
                        /\ Cancels = {}
                        /\ subscriptions_db' = subscriptions_db
                /\ \A i \in Cancels :
                        /\ \E j \in 1 .. i - 1 : calls[j] = "PaymentMethod.list"
                        /\ \A j \in DOMAIN calls :
                                calls[j] = "Subscription.create" => i < j
                /\ subscriptions_db' # subscriptions_db =>
                        resp'.fails_at \in {"create", "none"}
       ]_vars

\* a user with an active subscription and no saved payment method was refused
C24_Witness ==
    /\ resp.op = "subscribe"
    /\ resp.fails_at = "no_methods"
    /\ resp.status = 400
    /\ ~TEST_MODE
    /\ \E s \in DOMAIN subscriptions_db :
            /\ subscriptions_db[s].user_id = resp.uid
            /\ subscriptions_db[s].status = "active"

\* C25: whatever payment-method requests were served, every customer's default
\* payment method is unset or one of the methods attached to the customer: the
\* first method added becomes the default, set-default is refused with 404 for
\* a method that is not attached to the user's customer, and deleting the
\* default method clears the default before the method is detached.
DefaultIsAttached(customers) ==
    \A c \in CustomerIds :
        \/ customers[c].default_payment_method = None
        \/ customers[c].default_payment_method \in customers[c].methods

C25_DefaultPaymentMethodIsAttached ==
    [][ LET pm == resp'.payment_method_id
            c == users_db'[resp'.uid].stripe_customer_id
            was == users_db[resp'.uid].stripe_customer_id
        IN  /\ DefaultIsAttached(stripe_customers')
            /\ (Served("add_payment_method") /\ resp'.status = 200) =>
                    /\ pm \in stripe_customers'[c].methods
                    /\ stripe_customers'[c].methods = {pm} =>
                            stripe_customers'[c].default_payment_method = pm
            /\ (Served("set_default_payment_method") /\ resp'.uid # NoUser) =>
                    IF was = None \/ pm \notin stripe_customers[was].methods
                    THEN /\ resp'.status \in {400, 404}
                         /\ stripe_customers' = stripe_customers
                    ELSE resp'.status = 200 =>
                            stripe_customers'[c].default_payment_method = pm
            /\ (Served("delete_payment_method") /\ resp'.uid # NoUser /\ was # None) =>
                    /\ pm \notin stripe_customers[was].methods =>
                            /\ resp'.status \in {400, 404}
                            /\ stripe_customers' = stripe_customers
                    /\ ( /\ stripe_customers[was].default_payment_method = pm
                         /\ "PaymentMethod.detach" \in
                                {resp'.calls[i] : i \in DOMAIN resp'.calls} ) =>
                            /\ resp'.calls[1] = "Customer.modify"
                            /\ stripe_customers'[c].default_payment_method = None
                    /\ resp'.status = 200 => pm \notin stripe_customers'[c].methods
      ]_vars

\* the default payment method of a customer with another method was deleted
C25_Witness ==
    /\ resp.op = "delete_payment_method"
    /\ resp.status = 200
    /\ resp.calls = <<"Customer.modify", "PaymentMethod.detach">>
    /\ stripe_customers[users_db[resp.uid].stripe_customer_id].methods # {}
    /\ stripe_customers[users_db[resp.uid].stripe_customer_id].default_payment_method
            = None

\* the credits of the requests for a user that ran to their end
RECURSIVE Credited(_, _)
Credited(user_id, requests) ==
    IF requests = {} THEN 0
    ELSE LET r == CHOOSE x \in requests : TRUE
         IN  (IF /\ tasks[r].user_id = user_id
                 /\ tasks[r].pc = "done"
                 /\ tasks[r].status = 200
              THEN tasks[r].amount ELSE 0)
             + Credited(user_id, requests \ {r})

\* C26: with several webhook deliveries and verify calls for one user in
\* flight at once no update of the credits is lost: a handler reads and writes
\* the user's record without giving way to another request, so a user's
\* balance is the initial balance plus the amounts of the requests that ran
\* to their end.
C26_NoLostCreditUpdate ==
    /\ \A u \in DOMAIN users_db : users_db[u].credits = Credited(u, RequestIds)
    /\ \A r \in RequestIds : tasks[r].pc = "write" => running = r

\* a verify call has read the balance of a user and is about to write it while
\* a webhook delivery for the same user, past its await, waits for the event loop
C26_Witness ==
    \E r, q \in RequestIds :
        /\ tasks[r].kind = "verify" /\ tasks[r].pc = "write"
        /\ tasks[q].kind = "webhook" /\ tasks[q].pc = "record"
        /\ tasks[r].user_id = tasks[q].user_id
        /\ running = r

====
